---- MODULE Spec2Model ----
(***************************************************************************)
(* Model of the ML lifecycle toolkit's two decision components:            *)
(*   - the nightly data-drift job    (lambda/data_drift_detector.py)       *)
(*   - the model comparison/promotion script                               *)
(*                                   (scripts/compare_and_promote_models.py)*)
(*                                                                         *)
(* Numbers.  Python floats are modelled in fixed point.  An embedding      *)
(* component v stands for v/10.  Every statistic of a drift report is an   *)
(* integer number of hundredths (cosine 1.0 is 100, a p-value of 0.05 is   *)
(* 5).  cosine_similarity is rounded down and mean_shift_magnitude is      *)
(* rounded up, so that the comparisons against the thresholds 0.1 and 0.2  *)
(* (multiples of a hundredth) give exactly the answer of real arithmetic.  *)
(***************************************************************************)
EXTENDS Integers, Sequences, FiniteSets, TLC

VARIABLES
    \* ---- drift job: one invocation of lambda_handler ----
    pc,                   \* position in lambda_handler
    training_embeddings,  \* local of lambda_handler (line 55): <<>> while it
                          \* holds no array, <<e>> while it holds array e
    recent_embeddings,    \* local of lambda_handler (line 59), likewise
    drift_results,        \* <<>> until detect_drift returned, then <<report>>
    drift_detected,       \* local of lambda_handler (line 76)
    error,                \* the exception caught at line 100 ("" if none)
    calls,                \* the external calls made (S3, SNS), in order
    response,             \* <<>> until lambda_handler returned, then <<resp>>
    \* ---- model comparison and promotion: one run of the script ----
    runs,                 \* the experiment's runs in the tracking store
    model_versions,       \* the registered model's versions in the registry,
                          \* in the order search_model_versions returns them
    request,              \* the operation invoked and its arguments
    registry_calls,       \* the MlflowClient calls made, in order
    logged,               \* what logger.error was given, in order
    raised,               \* the exception that reached the caller ("" if none)
    df,                   \* compare_experiment_runs' DataFrame, a list of rows
    best_run_id,          \* find_best_model's result: <<>> is None, else <<id>>
    success,              \* promote_model's / auto_promote_best_model's
                          \* result: <<>> none yet, <<"True">> or <<"False">>
    mpc,                  \* "idle" before the operation, "done" after
    \* ---- model serving: the FastAPI application process ----
    environ,              \* os.environ: the variables the application reads
    API_KEY,              \* module global of line 48: <<>> is None, else <<key>>
    model,                \* module global of line 44: <<>> is None, else <<m>>
    model_uris_to_try,    \* local of startup_event (line 135)
    load_attempts,        \* the URIs load_pyfunc_model was called with, in order
    spc,                  \* "import", "startup", "loading", "serving"
    http_request,         \* the request handled last (<<>> before the first)
    http_response,        \* the answer to it (<<>> before the first)
    predict_calls,        \* model.predict invocations made for that request
    handled,              \* number of requests handled so far
    \* ---- CodeGenerationModel: one instance and the calls made on it ----
    artifact_config,      \* generation_config.json of the model artifact:
                          \* <<>> if the file does not exist, else <<dict>>
    generation_config,    \* self.generation_config: <<>> is None, else <<dict>>
    gpc,                  \* "new" before load_context, then "ready"
    model_input,          \* the model_input of the last predict call
    params,               \* its params: <<>> is None, else <<dict>>
    inputs,               \* the local inputs after line 141
    item_outcomes,        \* what happened to each input of the loop entered
    generate_kwargs,      \* the keyword arguments of each model.generate call
    tokenizer_calls,      \* number of tokenizer.encode calls of the last call
    predictions,          \* the value returned (<<>> if the call raised)
    predict_raised,       \* the exception that left predict ("" if none)
    ncalls,               \* number of predict calls made
    \* ---- data preparation: one call of split_data ----
    data,                 \* the list passed in (shuffled in place by the call)
    train_size,           \* the two fractions, in tenths
    val_size,
    split,                \* <<>> before the call returned, then <<train, val, test>>
    dpc,                  \* "call" before split_data ran, "returned" after
    \* ---- quality gates: one run of run_quality_gates.py ----
    check_results,        \* how each check command run so far ended
    passed,               \* local of main (line 96)
    summary,              \* the summary line printed at 115 / 118 ("" before)
    exit_code,            \* <<>> while running, then <<code>>
    qpc                   \* "checks", "summary", "exited"

driftVars == <<pc, training_embeddings, recent_embeddings, drift_results,
               drift_detected, error, calls, response>>

promoteVars == <<runs, model_versions, request, registry_calls, logged, raised,
                 df, best_run_id, success, mpc>>

serveVars == <<environ, API_KEY, model, model_uris_to_try, load_attempts, spc,
               http_request, http_response, predict_calls, handled>>

generateVars == <<artifact_config, generation_config, gpc, model_input, params,
                  inputs, item_outcomes, generate_kwargs, tokenizer_calls,
                  predictions, predict_raised, ncalls>>

splitVars == <<data, train_size, val_size, split, dpc>>

gateVars == <<check_results, passed, summary, exit_code, qpc>>

\* the variables of all programs but one
exceptDrift ==
    <<promoteVars, serveVars, generateVars, splitVars, gateVars>>
exceptPromote ==
    <<driftVars, serveVars, generateVars, splitVars, gateVars>>
exceptServe ==
    <<driftVars, promoteVars, generateVars, splitVars, gateVars>>
exceptGenerate ==
    <<driftVars, promoteVars, serveVars, splitVars, gateVars>>
exceptSplit ==
    <<driftVars, promoteVars, serveVars, generateVars, gateVars>>
exceptGate ==
    <<driftVars, promoteVars, serveVars, generateVars, splitVars>>

vars == <<driftVars, promoteVars, serveVars, generateVars, splitVars, gateVars>>

----------------------------------------------------------------------------
(* Bounds of the model *)

\* most vectors in one embedding set
MaxSamples == 2
\* largest dimensionality of an embedding vector
MaxDim == 2

\* most runs in the experiment
MaxRuns == 2
\* most versions of the registered model
MaxVersions == 2
\* largest top_k asked of compare_experiment_runs
MaxTopK == 2
\* most requests the application handles in one behaviour
MaxRequests == 2
\* longest list of inputs given to CodeGenerationModel.predict
MaxItems == 2
\* most predict calls made on one CodeGenerationModel
MaxPredictCalls == 2
\* longest list given to split_data
MaxData == 4
\* the fractions given to split_data are multiples of 1 / FractionSteps
FractionSteps == 10

\* values of one embedding component, in tenths (0.0 and 0.3)
EmbVals == {0, 3}
\* p-values scipy.stats.ks_2samp may return, in hundredths: just below the
\* threshold 0.05 and exactly at it
KsPValues == {4, 5}

----------------------------------------------------------------------------
(* Program constants (hundredths) *)

DRIFT_THRESHOLD_KS == 5
DRIFT_THRESHOLD_COSINE == 10
DRIFT_THRESHOLD_MEAN_SHIFT == 20
\* recent_std / (0 + 1e-8) with recent_std > 0: the ratio saturates here
StdRatioHuge == 100000000

----------------------------------------------------------------------------
(* Integer helpers *)

RECURSIVE SeqSum(_)
SeqSum(s) == IF Len(s) = 0 THEN 0 ELSE s[1] + SeqSum(Tail(s))

RECURSIVE SeqMin(_)
SeqMin(s) == IF Len(s) = 1 THEN s[1]
             ELSE LET m == SeqMin(Tail(s)) IN IF s[1] < m THEN s[1] ELSE m

CeilDiv(a, b) == (a + b - 1) \div b

\* floor of the square root of n >= 0, by bisection on [lo, hi]
RECURSIVE SqrtBisect(_, _, _)
SqrtBisect(n, lo, hi) ==
    IF lo >= hi THEN lo
    ELSE LET mid == (lo + hi + 1) \div 2
         IN  IF mid * mid <= n THEN SqrtBisect(n, mid, hi)
                               ELSE SqrtBisect(n, lo, mid - 1)

ISqrt(n) == SqrtBisect(n, 0, IF n < 46340 THEN n ELSE 46340)

ISqrtCeil(n) == LET r == ISqrt(n) IN IF r * r = n THEN r ELSE r + 1

----------------------------------------------------------------------------
(* Embedding sets: what np.array(...) yields for the JSON "embeddings" *)

Rows(d) == [1..d -> EmbVals]

EmbeddingSets ==
    UNION { [1..n -> Rows(d)] : n \in 0..MaxSamples, d \in 0..MaxDim }

\* len(embeddings)
NumSamples(e) == Len(e)
\* embeddings.shape[1], defined only for a non-empty set
NumCols(e) == Len(e[1])

Column(e, d) == [i \in 1..Len(e) |-> e[i][d]]
\* n * centroid: np.mean(e, axis=0) is ColSums(e) / len(e)
ColSums(e) == [d \in 1..NumCols(e) |-> SeqSum(Column(e, d))]
Dot(a, b) == SeqSum([d \in 1..Len(a) |-> a[d] * b[d]])
\* n^2 * variance of column d
ColVar(e, d) == Len(e) * Dot(Column(e, d), Column(e, d))
                - SeqSum(Column(e, d)) * SeqSum(Column(e, d))

Min2(a, b) == IF a < b THEN a ELSE b

----------------------------------------------------------------------------
(* detect_drift *)

\* Whether detect_drift raises, and what.  "" when it returns a report.
\*   line 175: shape[1] of an array built from an empty list  -> IndexError
\*   line 182: min() of no p-values (vectors of dimension 0)  -> ValueError
\*   line 190: sklearn's cosine_similarity on centroids of different
\*             lengths                                         -> ValueError
DetectError(training, recent) ==
    IF NumSamples(training) = 0 \/ NumSamples(recent) = 0
    THEN "IndexError: tuple index out of range"
    ELSE IF Min2(NumCols(training), NumCols(recent)) = 0
    THEN "ValueError: min() arg is an empty sequence"
    ELSE IF NumCols(training) # NumCols(recent)
    THEN "ValueError: Incompatible dimension for X and Y matrices"
    ELSE ""

\* Variant: the dot product of the centroids' sums, not divided by the norms.
CosineSimilarity_Unnormalised(a, b) == 100 * Dot(a, b)

\* Variant: a zero-norm centroid counts as perfectly similar.
CosineSimilarity_ZeroNormIsOne(a, b) ==
    LET na  == Dot(a, a)
        nb  == Dot(b, b)
        dot == Dot(a, b)
    IN  IF na = 0 \/ nb = 0 THEN 100
        ELSE IF dot >= 0
        THEN ISqrt((10000 * dot * dot) \div (na * nb))
        ELSE 0 - ISqrtCeil(CeilDiv(10000 * dot * dot, na * nb))

\* sklearn.metrics.pairwise.cosine_similarity of the two centroids; a and b
\* are the column sums (the centroids scaled by the sample counts, which
\* cancels).  A zero vector is normalised to itself, so the result is 0.
CosineSimilarity(a, b) ==
    LET na  == Dot(a, a)
        nb  == Dot(b, b)
        dot == Dot(a, b)
    IN  IF na = 0 \/ nb = 0 THEN 0
        ELSE IF dot >= 0
        THEN ISqrt((10000 * dot * dot) \div (na * nb))
        ELSE 0 - ISqrtCeil(CeilDiv(10000 * dot * dot, na * nb))

\* np.linalg.norm(training_centroid - recent_centroid)
MeanShift(a, nt, b, nr) ==
    LET diff == [d \in 1..Len(a) |-> a[d] * nr - b[d] * nt]
    IN  ISqrtCeil(CeilDiv(100 * Dot(diff, diff), (nt * nr) * (nt * nr)))

\* recent_std[d] / (training_std[d] + 1e-8), to the nearest hundredth
StdRatioAt(training, recent, d) ==
    LET vt == ColVar(training, d)
        vr == ColVar(recent, d)
        nt == Len(training)
        nr == Len(recent)
    IN  IF vr = 0 THEN 0
        ELSE IF vt = 0 THEN StdRatioHuge
        ELSE (ISqrt((40000 * vr * nt * nt) \div (vt * nr * nr)) + 1) \div 2

\* Lines 173-183: ks[d] is the p-value scipy.stats.ks_2samp returned for
\* dimension d of the two sets.
KsStats(ks) ==
    [ ks_test_p_value      |-> SeqMin(ks),
      ks_test_mean_p_value |-> SeqSum(ks) \div Len(ks) ]

\* Lines 185-207: the statistics of the centroids and of the deviations.
CentroidStats(training, recent) ==
    LET a  == ColSums(training)
        b  == ColSums(recent)
        nt == NumSamples(training)
        nr == NumSamples(recent)
        cosine_sim == CosineSimilarity(a, b)
        ratios == [d \in 1..NumCols(recent) |-> StdRatioAt(training, recent, d)]
    IN  [ cosine_similarity        |-> cosine_sim,
          cosine_similarity_change |-> 100 - cosine_sim,
          mean_shift_magnitude     |-> MeanShift(a, nt, b, nr),
          std_deviation_ratio      |-> SeqSum(ratios) \div Len(ratios) ]

\* The report detect_drift returns (without its timestamp), lines 167-209.
DriftReport(training, recent, k, c) ==
    [ training_samples         |-> NumSamples(training),
      recent_samples           |-> NumSamples(recent),
      ks_test_p_value          |-> k.ks_test_p_value,
      ks_test_mean_p_value     |-> k.ks_test_mean_p_value,
      cosine_similarity        |-> c.cosine_similarity,
      cosine_similarity_change |-> c.cosine_similarity_change,
      mean_shift_magnitude     |-> c.mean_shift_magnitude,
      std_deviation_ratio      |-> c.std_deviation_ratio ]

\* Variant: the p-value comparison made non-strict.
DriftDetected_NonStrictKs(results) ==
    \/ results.ks_test_p_value <= DRIFT_THRESHOLD_KS
    \/ results.cosine_similarity_change > DRIFT_THRESHOLD_COSINE
    \/ results.mean_shift_magnitude > DRIFT_THRESHOLD_MEAN_SHIFT

\* lambda_handler, lines 76-80
DriftDetected(results) ==
    \/ results.ks_test_p_value < DRIFT_THRESHOLD_KS
    \/ results.cosine_similarity_change > DRIFT_THRESHOLD_COSINE
    \/ results.mean_shift_magnitude > DRIFT_THRESHOLD_MEAN_SHIFT

----------------------------------------------------------------------------
(* lambda_handler, one action per external call *)

Call(name, ok) == [call |-> name, ok |-> ok]

DriftInit ==
    /\ pc = "load_training"
    /\ training_embeddings = <<>>
    /\ recent_embeddings = <<>>
    /\ drift_results = <<>>
    /\ drift_detected = FALSE
    /\ error = ""
    /\ calls = <<>>
    /\ response = <<>>

\* the drift job when it is not the program under study
DriftIdle ==
    /\ pc = "idle"
    /\ training_embeddings = <<>>
    /\ recent_embeddings = <<>>
    /\ drift_results = <<>>
    /\ drift_detected = FALSE
    /\ error = ""
    /\ calls = <<>>
    /\ response = <<>>

\* line 55, load_training_embeddings returns
LoadTrainingOk ==
    /\ pc = "load_training"
    /\ UNCHANGED exceptDrift
    /\ \E e \in EmbeddingSets : training_embeddings' = <<e>>
    /\ calls' = Append(calls, Call("s3_get_training", TRUE))
    /\ pc' = "load_recent"
    /\ UNCHANGED <<recent_embeddings, drift_results, drift_detected, error, response>>

\* line 55, load_training_embeddings re-raises (lines 121-123)
LoadTrainingFail ==
    /\ pc = "load_training"
    /\ UNCHANGED exceptDrift
    /\ calls' = Append(calls, Call("s3_get_training", FALSE))
    /\ error' = "Error loading training embeddings"
    /\ pc' = "except"
    /\ UNCHANGED <<training_embeddings, recent_embeddings, drift_results,
                   drift_detected, response>>

\* Variant: the emptiness test of lines 62-70 left out.
LoadRecentOk_NoSkip ==
    /\ pc = "load_recent"
    /\ UNCHANGED exceptDrift
    /\ \E e \in EmbeddingSets : recent_embeddings' = <<e>>
    /\ pc' = "detect"
    /\ calls' = Append(calls, Call("s3_list_recent", TRUE))
    /\ UNCHANGED <<training_embeddings, drift_results, drift_detected, error,
                   response>>

\* Variant: no recent embeddings treated as a failure.
LoadRecentOk_SkipRaises ==
    /\ pc = "load_recent"
    /\ UNCHANGED exceptDrift
    /\ \E e \in EmbeddingSets :
         /\ recent_embeddings' = <<e>>
         /\ IF NumSamples(e) = 0
            THEN /\ error' = "No recent embeddings found"
                 /\ pc' = "except"
            ELSE /\ error' = error
                 /\ pc' = "detect"
    /\ calls' = Append(calls, Call("s3_list_recent", TRUE))
    /\ UNCHANGED <<training_embeddings, drift_results, drift_detected, response>>

\* lines 59-70, load_recent_embeddings returns; no recent embeddings: skipped
LoadRecentOk ==
    /\ pc = "load_recent"
    /\ UNCHANGED exceptDrift
    /\ \E e \in EmbeddingSets :
         /\ recent_embeddings' = <<e>>
         /\ IF NumSamples(e) = 0
            THEN /\ response' = << [statusCode |-> 200, status |-> "skipped",
                                    reason |-> "No recent embeddings found"] >>
                 /\ pc' = "done"
            ELSE /\ response' = response
                 /\ pc' = "detect"
    /\ calls' = Append(calls, Call("s3_list_recent", TRUE))
    /\ UNCHANGED <<training_embeddings, drift_results, drift_detected, error>>

\* line 59, load_recent_embeddings re-raises (lines 151-153)
LoadRecentFail ==
    /\ pc = "load_recent"
    /\ UNCHANGED exceptDrift
    /\ calls' = Append(calls, Call("s3_list_recent", FALSE))
    /\ error' = "Error loading recent embeddings"
    /\ pc' = "except"
    /\ UNCHANGED <<training_embeddings, recent_embeddings, drift_results,
                   drift_detected, response>>

\* lines 73-80, detect_drift returns and the decision is taken.  The two
\* arrays are not read after line 73: the model holds them only up to here
\* (the report carries their sample counts).
DetectOk ==
    /\ pc = "detect"
    /\ UNCHANGED exceptDrift
    /\ DetectError(training_embeddings[1], recent_embeddings[1]) = ""
    /\ \E c \in {CentroidStats(training_embeddings[1], recent_embeddings[1])} :
       \E k \in {KsStats(ks) : ks \in [1..NumCols(recent_embeddings[1]) -> KsPValues]} :
       \E results \in {DriftReport(training_embeddings[1], recent_embeddings[1],
                                   k, c)} :
         /\ drift_results' = <<results>>
         /\ drift_detected' = DriftDetected(results)
         /\ pc' = IF DriftDetected(results) THEN "alert" ELSE "store"
    /\ training_embeddings' = <<>>
    /\ recent_embeddings' = <<>>
    /\ UNCHANGED <<error, calls, response>>

\* line 73, detect_drift raises
DetectFail ==
    /\ pc = "detect"
    /\ UNCHANGED exceptDrift
    /\ DetectError(training_embeddings[1], recent_embeddings[1]) # ""
    /\ error' = DetectError(training_embeddings[1], recent_embeddings[1])
    /\ pc' = "except"
    /\ UNCHANGED <<training_embeddings, recent_embeddings, drift_results,
                   drift_detected, calls, response>>

\* Variant: send_drift_alert without its try/except.
SendDriftAlert_Propagates ==
    /\ pc = "alert"
    /\ UNCHANGED exceptDrift
    /\ \E ok \in BOOLEAN :
         /\ calls' = Append(calls, Call("sns_publish_drift", ok))
         /\ pc' = IF ok THEN "store" ELSE "except"
         /\ error' = IF ok THEN error ELSE "Error sending drift alert"
    /\ UNCHANGED <<training_embeddings, recent_embeddings, drift_results,
                   drift_detected, response>>

\* lines 83-84 and 212-240: the publish may fail, the failure is logged only
SendDriftAlert ==
    /\ pc = "alert"
    /\ UNCHANGED exceptDrift
    /\ \E ok \in BOOLEAN : calls' = Append(calls, Call("sns_publish_drift", ok))
    /\ pc' = "store"
    /\ UNCHANGED <<training_embeddings, recent_embeddings, drift_results,
                   drift_detected, error, response>>

\* lines 76-80 and 94-96: the decision is the value of a Python `or` chain.
\* The p-value is a numpy float64, so the first comparison is a numpy bool_;
\* `or` returns it when it is true and otherwise returns the value of a later
\* comparison of two Python floats, a Python bool.  json.dumps (line 94)
\* accepts a Python bool and raises TypeError for a numpy bool_.
ResponseSerializable(results) ==
    ~(results.ks_test_p_value < DRIFT_THRESHOLD_KS)

\* lines 87-98 and 265-281: the put may fail, the failure is logged only;
\* the response is then built inside the try block of line 51
StoreDriftResults ==
    /\ pc = "store"
    /\ UNCHANGED exceptDrift
    /\ \E ok \in BOOLEAN : calls' = Append(calls, Call("s3_put_results", ok))
    /\ IF ResponseSerializable(drift_results[1])
       THEN /\ response' = << [statusCode |-> 200, status |-> "completed",
                               drift_detected |-> drift_detected,
                               results |-> drift_results[1]] >>
            /\ pc' = "done"
            /\ error' = error
       ELSE /\ response' = response
            /\ pc' = "except"
            /\ error' = "Object of type bool_ is not JSON serializable"
    /\ UNCHANGED <<training_embeddings, recent_embeddings, drift_results,
                   drift_detected>>

\* Variant: send_error_alert without its try/except.
HandleException_Propagates ==
    /\ pc = "except"
    /\ UNCHANGED exceptDrift
    /\ \E ok \in BOOLEAN :
         /\ calls' = Append(calls, Call("sns_publish_error", ok))
         /\ response' = IF ok THEN << [statusCode |-> 500, status |-> "error",
                                       message |-> error] >>
                        ELSE response
         /\ pc' = IF ok THEN "done" ELSE "raised"
    /\ UNCHANGED <<training_embeddings, recent_embeddings, drift_results,
                   drift_detected, error>>

\* Variant: the except branch without send_error_alert.
HandleException_NoAlert ==
    /\ pc = "except"
    /\ UNCHANGED exceptDrift
    /\ response' = << [statusCode |-> 500, status |-> "error",
                       message |-> error] >>
    /\ pc' = "done"
    /\ UNCHANGED <<training_embeddings, recent_embeddings, drift_results,
                   drift_detected, error, calls>>

\* lines 100-112 and 243-262: the error alert may fail, logged only
HandleException ==
    /\ pc = "except"
    /\ UNCHANGED exceptDrift
    /\ \E ok \in BOOLEAN : calls' = Append(calls, Call("sns_publish_error", ok))
    /\ response' = << [statusCode |-> 500, status |-> "error",
                       message |-> error] >>
    /\ pc' = "done"
    /\ UNCHANGED <<training_embeddings, recent_embeddings, drift_results,
                   drift_detected, error>>

DriftNext ==
    \/ LoadTrainingOk
    \/ LoadTrainingFail
    \/ LoadRecentOk
    \/ LoadRecentFail
    \/ DetectOk
    \/ DetectFail
    \/ SendDriftAlert
    \/ StoreDriftResults
    \/ HandleException


----------------------------------------------------------------------------
(* detect_drift called on its own with two arrays *)

DetectInit ==
    /\ pc = "call_detect"
    /\ training_embeddings \in { <<e>> : e \in EmbeddingSets }
    /\ recent_embeddings \in { <<e>> : e \in EmbeddingSets }
    /\ drift_results = <<>>
    /\ drift_detected = FALSE
    /\ error = ""
    /\ calls = <<>>
    /\ response = <<>>

\* lines 167-209, the report is returned
DetectDriftReturns ==
    /\ pc = "call_detect"
    /\ UNCHANGED exceptDrift
    /\ DetectError(training_embeddings[1], recent_embeddings[1]) = ""
    /\ \E c \in {CentroidStats(training_embeddings[1], recent_embeddings[1])} :
       \E k \in {KsStats(ks) : ks \in [1..NumCols(recent_embeddings[1]) -> KsPValues]} :
         drift_results' = <<DriftReport(training_embeddings[1],
                                        recent_embeddings[1], k, c)>>
    /\ pc' = "detect_returned"
    /\ UNCHANGED <<training_embeddings, recent_embeddings, drift_detected, error,
                   calls, response>>

\* lines 175-193, an exception leaves detect_drift
DetectDriftRaises ==
    /\ pc = "call_detect"
    /\ UNCHANGED exceptDrift
    /\ DetectError(training_embeddings[1], recent_embeddings[1]) # ""
    /\ error' = DetectError(training_embeddings[1], recent_embeddings[1])
    /\ pc' = "detect_raised"
    /\ UNCHANGED <<training_embeddings, recent_embeddings, drift_results,
                   drift_detected, calls, response>>

DetectNext ==
    \/ DetectDriftReturns
    \/ DetectDriftRaises

----------------------------------------------------------------------------
(* The tracking store and the model registry (MlflowClient) *)

\* the metric the runs of the model's store may have recorded
RecordedMetrics == {"test_eval_loss"}
\* the metric names a caller may ask for
RequestMetrics == {"test_eval_loss", "accuracy"}
\* values of a metric
MetricVals == {1, 2}
\* target stages of a promotion
Stages == {"Staging", "Production"}

\* run.data.metrics: a mapping from some of the metric names to values
MetricMaps == UNION { [names -> MetricVals] : names \in SUBSET RecordedMetrics }

\* The runs of the experiment, in the store's own order; run i has id i.
RunLists ==
    UNION { [1..n -> [run_id : 1..MaxRuns, metrics : MetricMaps]] : n \in 0..MaxRuns }
StoredRuns == { rs \in RunLists : \A i \in 1..Len(rs) : rs[i].run_id = i }

\* The versions of the registered model; version i was created from run
\* run_id (0: a run of another experiment).
VersionLists ==
    UNION { [1..n -> [version : 1..MaxVersions, run_id : 0..MaxRuns,
                      current_stage : {"None"}, description : {<<>>}]] :
            n \in 0..MaxVersions }
RegisteredVersions ==
    { mv \in VersionLists : \A i \in 1..Len(mv) : mv[i].version = i }

\* What each client call of one operation does: get_experiment_by_name
\* finds the experiment, returns None or raises; the others succeed or raise.
Envs == [ experiment : {"found", "none", "raise"},
          search_runs : {"ok", "raise"},
          search_versions : {"ok", "raise"},
          get_run : {"ok", "raise"},
          transition : {"ok", "raise"},
          update : {"ok", "raise"} ]

\* the calls an operation does not make are left at their first outcome
CompareEnvs == { e \in Envs : /\ e.search_versions = "ok" /\ e.get_run = "ok"
                              /\ e.transition = "ok" /\ e.update = "ok" }
PromoteEnvs == { e \in Envs : /\ e.experiment = "found" /\ e.search_runs = "ok"
                              /\ e.search_versions = "ok" /\ e.get_run = "ok" }

RegCall(name, arg, outcome) == [call |-> name, arg |-> arg, outcome |-> outcome]

HasMetric(run, metric_name) == metric_name \in DOMAIN run.metrics

\* The order of search_runs under order_by "metrics.<name> ASC|DESC": a run
\* with the metric comes before a run without it (missing values last).
RunBefore(x, y, metric_name, ascending) ==
    /\ HasMetric(x, metric_name)
    /\ \/ ~HasMetric(y, metric_name)
       \/ IF ascending THEN x.metrics[metric_name] < y.metrics[metric_name]
                       ELSE x.metrics[metric_name] > y.metrics[metric_name]

RECURSIVE InsertRun(_, _, _, _)
InsertRun(x, sorted, metric_name, ascending) ==
    IF Len(sorted) = 0 THEN <<x>>
    ELSE IF RunBefore(x, sorted[1], metric_name, ascending)
    THEN <<x>> \o sorted
    ELSE <<sorted[1]>> \o InsertRun(x, Tail(sorted), metric_name, ascending)

RECURSIVE SortRuns(_, _, _, _)
SortRuns(sorted, rest, metric_name, ascending) ==
    IF Len(rest) = 0 THEN sorted
    ELSE SortRuns(InsertRun(rest[1], sorted, metric_name, ascending),
                  Tail(rest), metric_name, ascending)

\* client.search_runs(experiment_ids, order_by, max_results), lines 63-67:
\* the runs are ordered, none is filtered out, at most max_results are kept.
SearchRuns(rs, metric_name, ascending, max_results) ==
    LET sorted == SortRuns(<<>>, rs, metric_name, ascending)
    IN  SubSeq(sorted, 1, Min2(max_results, Len(sorted)))

----------------------------------------------------------------------------
(* ModelComparator *)

\* Whether the DataFrame has the column metric_<name>: pandas makes a column
\* of every key some row has.
HasColumn(frame, metric_name) ==
    \E i \in 1..Len(frame) : metric_name \in DOMAIN frame[i].metrics

\* compare_experiment_runs, lines 31-98.  The result: the exception that
\* escapes ("" if none), the DataFrame, the client calls, the errors logged.
CompareExperimentRuns(rs, env, metric_name, top_k, ascending) ==
    LET lookup == <<RegCall("get_experiment_by_name", 0, env.experiment)>>
    IN  IF env.experiment = "raise"
        THEN [raised |-> "", df |-> <<>>, calls |-> lookup,
              logged |-> <<"Error getting experiment: MlflowException">>]
        ELSE IF env.experiment = "none"
        THEN [raised |-> "", df |-> <<>>, calls |-> lookup,
              logged |-> <<"Error getting experiment: not found">>]
        ELSE IF env.search_runs = "raise"
        THEN [raised |-> "MlflowException", df |-> <<>>,
              calls |-> lookup \o <<RegCall("search_runs", top_k, "raise")>>,
              logged |-> <<>>]
        ELSE LET found == SearchRuns(rs, metric_name, ascending, top_k)
             IN  [raised |-> "",
                  df |-> [i \in 1..Len(found) |->
                            [run_id |-> found[i].run_id,
                             metrics |-> found[i].metrics]],
                  calls |-> lookup \o <<RegCall("search_runs", top_k, "ok")>>,
                  logged |-> <<>>]

\* find_best_model, lines 200-234.  best is <<>> for None.
FindBestModel(rs, env, metric_name, minimize) ==
    LET c == CompareExperimentRuns(rs, env, metric_name, 1, minimize)
    IN  IF c.raised # ""
        THEN [raised |-> c.raised, best |-> <<>>, calls |-> c.calls,
              logged |-> c.logged]
        ELSE IF Len(c.df) = 0
        THEN [raised |-> "", best |-> <<>>, calls |-> c.calls,
              logged |-> c.logged]
        ELSE IF ~HasColumn(c.df, metric_name)
        THEN [raised |-> "KeyError", best |-> <<>>, calls |-> c.calls,
              logged |-> c.logged]
        ELSE [raised |-> "", best |-> <<c.df[1].run_id>>, calls |-> c.calls,
              logged |-> c.logged]

VersionExists(mv, version) == \E i \in 1..Len(mv) : mv[i].version = version

\* the registry's transition_model_version_stage
SetStage(mv, version, stage) ==
    [i \in 1..Len(mv) |-> IF mv[i].version = version
                          THEN [mv[i] EXCEPT !.current_stage = stage]
                          ELSE mv[i]]

\* the registry's update_model_version
SetDescription(mv, version, description) ==
    [i \in 1..Len(mv) |-> IF mv[i].version = version
                          THEN [mv[i] EXCEPT !.description = description]
                          ELSE mv[i]]

\* The exception of a failed transition: the version does not exist, or the
\* call failed otherwise.
TransitionError(mv, env, version) ==
    IF ~VersionExists(mv, version) THEN "RestException: RESOURCE_DOES_NOT_EXIST"
    ELSE IF env.transition = "raise" THEN "MlflowException: transition failed"
    ELSE ""

UpdateError(env) ==
    IF env.update = "raise" THEN "MlflowException: update failed" ELSE ""

\* line 186, `if description:`: None (<<>>) and the empty string are false
Truthy(description) == description # <<>> /\ description[1] # ""

\* Variant: the two calls in separate try blocks, the update made whether or
\* not the transition succeeded.
PromoteModel_UpdateAfterFailure(mv, env, version, stage, description) ==
    LET terr == TransitionError(mv, env, version)
        t    == <<RegCall("transition_model_version_stage", version,
                          IF terr = "" THEN "ok" ELSE "raise")>>
        u    == <<RegCall("update_model_version", version,
                          IF UpdateError(env) = "" THEN "ok" ELSE "raise")>>
        staged == IF terr = "" THEN SetStage(mv, version, stage) ELSE mv
    IN  IF ~Truthy(description)
        THEN [success |-> IF terr = "" THEN "True" ELSE "False",
              versions |-> staged, calls |-> t,
              logged |-> IF terr = "" THEN <<>> ELSE <<terr>>]
        ELSE [success |-> IF terr = "" /\ UpdateError(env) = ""
                          THEN "True" ELSE "False",
              versions |-> IF UpdateError(env) = ""
                           THEN SetDescription(staged, version, description)
                           ELSE staged,
              calls |-> t \o u,
              logged |-> IF terr # "" THEN <<terr>>
                         ELSE IF UpdateError(env) # "" THEN <<UpdateError(env)>>
                         ELSE <<>>]

\* Variant: a failure of the description update is ignored.
PromoteModel_UpdateIgnored(mv, env, version, stage, description) ==
    LET terr == TransitionError(mv, env, version)
        t    == <<RegCall("transition_model_version_stage", version,
                          IF terr = "" THEN "ok" ELSE "raise")>>
        u    == <<RegCall("update_model_version", version,
                          IF UpdateError(env) = "" THEN "ok" ELSE "raise")>>
    IN  IF terr # ""
        THEN [success |-> "False", versions |-> mv, calls |-> t,
              logged |-> <<terr>>]
        ELSE IF ~Truthy(description)
        THEN [success |-> "True", versions |-> SetStage(mv, version, stage),
              calls |-> t, logged |-> <<>>]
        ELSE [success |-> "True",
              versions |-> IF UpdateError(env) = ""
                           THEN SetDescription(SetStage(mv, version, stage),
                                               version, description)
                           ELSE SetStage(mv, version, stage),
              calls |-> t \o u, logged |-> <<>>]

\* promote_model, lines 156-198.  description <<>> is None, <<"">> the empty
\* string.  The result: the
\* value returned, the registry afterwards, the client calls, the errors
\* logged.  Both calls are in one try: whichever raises, False is returned.
PromoteModel(mv, env, version, stage, description) ==
    LET terr == TransitionError(mv, env, version)
        t    == <<RegCall("transition_model_version_stage", version,
                          IF terr = "" THEN "ok" ELSE "raise")>>
        u    == <<RegCall("update_model_version", version,
                          IF UpdateError(env) = "" THEN "ok" ELSE "raise")>>
    IN  IF terr # ""
        THEN [success |-> "False", versions |-> mv, calls |-> t,
              logged |-> <<terr>>]
        ELSE IF ~Truthy(description)
        THEN [success |-> "True", versions |-> SetStage(mv, version, stage),
              calls |-> t, logged |-> <<>>]
        ELSE IF UpdateError(env) # ""
        THEN [success |-> "False", versions |-> SetStage(mv, version, stage),
              calls |-> t \o u, logged |-> <<UpdateError(env)>>]
        ELSE [success |-> "True",
              versions |-> SetDescription(SetStage(mv, version, stage),
                                          version, description),
              calls |-> t \o u, logged |-> <<>>]

\* Variant: the loop of lines 275-278 without its break (the last match wins).
FindTargetVersion_LastMatch(mv, run_id) ==
    LET matches == {i \in 1..Len(mv) : mv[i].run_id = run_id}
    IN  IF matches = {} THEN <<>>
        ELSE <<mv[CHOOSE i \in matches : \A j \in matches : j <= i].version>>

\* auto_promote_best_model, lines 273-278: the version of the first model
\* version whose run_id is the best run's; <<>> when there is none.
FindTargetVersion(mv, run_id) ==
    LET matches == {i \in 1..Len(mv) : mv[i].run_id = run_id}
    IN  IF matches = {} THEN <<>>
        ELSE <<mv[CHOOSE i \in matches : \A j \in matches : i <= j].version>>

\* the description auto_promote_best_model generates, line 288
AutoDescription(metric_name, metric_value) ==
    <<"Auto-promoted best model with", metric_name, metric_value>>

\* auto_promote_best_model, lines 236-300.
AutoPromoteBestModel(rs, mv, env, metric_name, minimize, target_stage) ==
    LET fb == FindBestModel(rs, env, metric_name, minimize)
        sv == <<RegCall("search_model_versions", 0, env.search_versions)>>
        gr == <<RegCall("get_run", IF Len(fb.best) = 1 THEN fb.best[1] ELSE 0,
                        env.get_run)>>
    IN  IF fb.raised # ""
        THEN [raised |-> fb.raised, success |-> <<>>, best |-> fb.best,
              versions |-> mv, calls |-> fb.calls, logged |-> fb.logged]
        ELSE IF Len(fb.best) = 0
        THEN [raised |-> "", success |-> <<"False">>, best |-> fb.best,
              versions |-> mv, calls |-> fb.calls,
              logged |-> fb.logged \o <<"No best run found">>]
        ELSE IF env.search_versions = "raise"
        THEN [raised |-> "", success |-> <<"False">>, best |-> fb.best,
              versions |-> mv, calls |-> fb.calls \o sv,
              logged |-> fb.logged \o <<"Error in auto-promotion">>]
        ELSE IF FindTargetVersion(mv, fb.best[1]) = <<>>
        THEN [raised |-> "", success |-> <<"False">>, best |-> fb.best,
              versions |-> mv, calls |-> fb.calls \o sv,
              logged |-> fb.logged \o <<"No model version found for run">>]
        ELSE IF env.get_run = "raise"
        THEN [raised |-> "", success |-> <<"False">>, best |-> fb.best,
              versions |-> mv, calls |-> fb.calls \o sv \o gr,
              logged |-> fb.logged \o <<"Error in auto-promotion">>]
        ELSE LET p == PromoteModel(mv, env, FindTargetVersion(mv, fb.best[1])[1],
                                   target_stage,
                                   AutoDescription(metric_name,
                                       rs[fb.best[1]].metrics[metric_name]))
             IN  [raised |-> "", success |-> <<p.success>>, best |-> fb.best,
                  versions |-> p.versions,
                  calls |-> fb.calls \o sv \o gr \o p.calls,
                  logged |-> fb.logged \o p.logged]

----------------------------------------------------------------------------
(* One run of the script: main() performs one operation *)

NoRequest == [op |-> "none", metric_name |-> "", top_k |-> 0, ascending |-> TRUE,
              version |-> 0, stage |-> "", description |-> <<>>]

PromoteIdle ==
    /\ runs = <<>>
    /\ model_versions = <<>>
    /\ request = NoRequest
    /\ registry_calls = <<>>
    /\ logged = <<>>
    /\ raised = ""
    /\ df = <<>>
    /\ best_run_id = <<>>
    /\ success = <<>>
    /\ mpc = "idle"

PromoteInit ==
    /\ runs \in StoredRuns
    /\ model_versions \in RegisteredVersions
    /\ request = NoRequest
    /\ registry_calls = <<>>
    /\ logged = <<>>
    /\ raised = ""
    /\ df = <<>>
    /\ best_run_id = <<>>
    /\ success = <<>>
    /\ mpc = "idle"

\* --action compare, lines 336-344
Compare ==
    /\ mpc = "idle"
    /\ \E env \in CompareEnvs, metric_name \in RequestMetrics, top_k \in 1..MaxTopK,
          ascending \in BOOLEAN :
       \E c \in {CompareExperimentRuns(runs, env, metric_name, top_k, ascending)} :
         /\ request' = [NoRequest EXCEPT !.op = "compare",
                                         !.metric_name = metric_name,
                                         !.top_k = top_k,
                                         !.ascending = ascending]
         /\ raised' = c.raised
         /\ df' = c.df
         /\ registry_calls' = c.calls
         /\ logged' = c.logged
    /\ mpc' = "done"
    /\ UNCHANGED <<runs, model_versions, best_run_id, success>>
    /\ UNCHANGED exceptPromote

\* --action promote, lines 356-366; a version the registry does not have is
\* asked for too (MaxVersions + 1)
Promote ==
    /\ mpc = "idle"
    /\ \E env \in PromoteEnvs, version \in 1..(MaxVersions + 1), stage \in Stages,
          description \in {<<>>, <<"">>, <<"manual promotion">>} :
       \E p \in {PromoteModel(model_versions, env, version, stage, description)} :
         /\ request' = [NoRequest EXCEPT !.op = "promote",
                                         !.version = version,
                                         !.stage = stage,
                                         !.description = description]
         /\ success' = <<p.success>>
         /\ model_versions' = p.versions
         /\ registry_calls' = p.calls
         /\ logged' = p.logged
    /\ mpc' = "done"
    /\ UNCHANGED <<runs, raised, df, best_run_id>>
    /\ UNCHANGED exceptPromote

\* --action auto-promote, lines 373-383
AutoPromote ==
    /\ mpc = "idle"
    /\ \E env \in Envs, metric_name \in RequestMetrics, minimize \in BOOLEAN,
          stage \in Stages :
       \E a \in {AutoPromoteBestModel(runs, model_versions, env, metric_name,
                                      minimize, stage)} :
         /\ request' = [NoRequest EXCEPT !.op = "auto_promote",
                                         !.metric_name = metric_name,
                                         !.ascending = minimize,
                                         !.stage = stage]
         /\ raised' = a.raised
         /\ success' = a.success
         /\ best_run_id' = a.best
         /\ model_versions' = a.versions
         /\ registry_calls' = a.calls
         /\ logged' = a.logged
    /\ mpc' = "done"
    /\ UNCHANGED <<runs, df>>
    /\ UNCHANGED exceptPromote

PromoteNext ==
    \/ Compare
    \/ Promote
    \/ AutoPromote

----------------------------------------------------------------------------
(* Model serving: the FastAPI application of serving/main.py *)

\* A URI is the sequence of the pieces its string is put together from.
ModelsUri(name, stage) == <<"models:/", name, "/", stage>>
DefaultModelName == "code_model_fine_tuning_model"
DefaultFallbackUri == ModelsUri(DefaultModelName, "latest")
LocalPath == <<"/models/local">>

\* bearer tokens and API keys
Keys == {"k1", "k2"}
\* the Authorization header as HTTPBearer(auto_error=False) hands it on:
\* <<>> when there is none, else <<token>>
Credentials == {<<>>} \cup { <<k>> : k \in Keys }
\* values of the environment variable API_KEY: unset, empty, or a key
EnvApiKeys == {<<>>, <<"">>} \cup { <<k>> : k \in Keys }

Environments ==
    [ API_KEY          : EnvApiKeys,
      MODEL_NAME       : {<<>>, <<"">>},
      MODEL_STAGE      : {<<>>, <<"Staging">>},
      LOCAL_MODEL_PATH : {<<>>, <<LocalPath>>},
      MODEL_URI        : {<<>>, <<LocalPath>>, <<ModelsUri("other", "1")>>} ]

\* os.getenv(name, default)
Getenv(env, name, default) == IF env[name] = <<>> THEN default ELSE env[name][1]

\* the application when it is not the program under study
ServeIdle ==
    /\ environ = <<>>
    /\ API_KEY = <<>>
    /\ model = <<>>
    /\ model_uris_to_try = <<>>
    /\ load_attempts = <<>>
    /\ spc = "idle"
    /\ http_request = <<>>
    /\ http_response = <<>>
    /\ predict_calls = 0
    /\ handled = 0

\* the process before the module is imported
ServeInit ==
    /\ environ \in Environments
    /\ API_KEY = <<>>
    /\ model = <<>>
    /\ model_uris_to_try = <<>>
    /\ load_attempts = <<>>
    /\ spc = "import"
    /\ http_request = <<>>
    /\ http_response = <<>>
    /\ predict_calls = 0
    /\ handled = 0

\* lines 44-48, executed once when the module is imported
Import ==
    /\ spc = "import"
    /\ model' = <<>>
    /\ API_KEY' = environ.API_KEY
    /\ spc' = "startup"
    /\ UNCHANGED <<environ, model_uris_to_try, load_attempts, http_request,
                   http_response, predict_calls, handled>>
    /\ UNCHANGED exceptServe

\* Variant: the fallback URI is tried first.
ModelUrisToTry_FallbackFirst(env) ==
    LET model_name  == Getenv(env, "MODEL_NAME", DefaultModelName)
        model_stage == Getenv(env, "MODEL_STAGE", "Production")
        named == IF model_name # ""
                 THEN <<ModelsUri(model_name, model_stage),
                        ModelsUri(model_name, "latest")>>
                 ELSE <<>>
        local == IF env.LOCAL_MODEL_PATH # <<>>
                 THEN <<env.LOCAL_MODEL_PATH[1]>> ELSE <<>>
    IN  <<Getenv(env, "MODEL_URI", DefaultFallbackUri)>> \o named \o local

\* startup_event, lines 131-153: the candidate URIs in the order of trial
ModelUrisToTry(env) ==
    LET model_name  == Getenv(env, "MODEL_NAME", DefaultModelName)
        model_stage == Getenv(env, "MODEL_STAGE", "Production")
        named == IF model_name # ""
                 THEN <<ModelsUri(model_name, model_stage),
                        ModelsUri(model_name, "latest")>>
                 ELSE <<>>
        local == IF env.LOCAL_MODEL_PATH # <<>>
                 THEN <<env.LOCAL_MODEL_PATH[1]>> ELSE <<>>
        fallback_uri == Getenv(env, "MODEL_URI", DefaultFallbackUri)
        listed == named \o local
    IN  IF \E i \in 1..Len(listed) : listed[i] = fallback_uri
        THEN listed
        ELSE listed \o <<fallback_uri>>

\* startup_event, lines 126-155
StartupBegin ==
    /\ spc = "startup"
    /\ model_uris_to_try' = ModelUrisToTry(environ)
    /\ model' = <<>>
    /\ spc' = "loading"
    /\ UNCHANGED <<environ, API_KEY, load_attempts, http_request, http_response,
                   predict_calls, handled>>
    /\ UNCHANGED exceptServe

\* lines 157-161: load_pyfunc_model returns a model, the loop is left
LoadModelOk ==
    /\ spc = "loading"
    /\ LET model_uri == model_uris_to_try[Len(load_attempts) + 1]
       IN  /\ load_attempts' = Append(load_attempts, model_uri)
           /\ model' = <<[uri |-> model_uri]>>
    /\ spc' = "serving"
    /\ UNCHANGED <<environ, API_KEY, model_uris_to_try, http_request,
                   http_response, predict_calls, handled>>
    /\ UNCHANGED exceptServe

\* lines 162-167: load_pyfunc_model raises, the next URI is tried; after the
\* last one the application starts without a model
LoadModelFail ==
    /\ spc = "loading"
    /\ load_attempts' =
          Append(load_attempts, model_uris_to_try[Len(load_attempts) + 1])
    /\ spc' = IF Len(load_attempts) + 1 = Len(model_uris_to_try)
              THEN "serving" ELSE "loading"
    /\ UNCHANGED <<environ, API_KEY, model, model_uris_to_try, http_request,
                   http_response, predict_calls, handled>>
    /\ UNCHANGED exceptServe

\* what the client receives: the status code, the pieces of the detail
\* string of an HTTPException, and the body of a normal answer (<<>> if none)
Answer(status_code, detail, body) ==
    [status_code |-> status_code, detail |-> detail, body |-> body]

Request(path, credentials, predict_outcome) ==
    [ path |-> path, credentials |-> credentials,
      \* the value of the environment variable API_KEY while it is handled
      env_api_key |-> environ.API_KEY,
      \* what model.predict did: "return", "raise", "not called"
      predict_outcome |-> predict_outcome ]

\* Variant: the health status does not look at the model.
HealthBody_AlwaysHealthy(m) == [status |-> "healthy", model_loaded |-> TRUE]

\* health_check, lines 175-178
HealthBody(m) ==
    [ status |-> IF m # <<>> THEN "healthy" ELSE "degraded",
      model_loaded |-> m # <<>> ]

\* Variant: no development mode, a key is always demanded.
GetApiKey_AlwaysDemands(key, credentials) ==
    IF credentials = <<>> \/ key = <<>> \/ credentials[1] # key[1]
    THEN <<Answer(401, <<"Invalid or missing API key">>, <<>>)>>
    ELSE <<>>

\* get_api_key, lines 51-70, with the module's API_KEY as key: <<>> when it
\* returns, <<answer>> when it raises the HTTPException
GetApiKey(key, credentials) ==
    IF key = <<>> \/ key = <<"">> THEN <<>>
    ELSE IF credentials = <<>>
    THEN <<Answer(401, <<"Invalid or missing API key">>, <<>>)>>
    ELSE IF credentials[1] # key[1]
    THEN <<Answer(401, <<"Invalid or missing API key">>, <<>>)>>
    ELSE <<>>

\* the details of lines 195, 234, 279
ModelNotLoaded(path) ==
    IF path = "/predict" THEN <<"Model not loaded", ". Service is not ready.">>
    ELSE <<"Model not loaded">>
\* the details of lines 212, 263, 305: f"<what> failed: {str(e)}"
FailureDetail(path, e) ==
    <<CASE path = "/predict" -> "Prediction failed"
        [] path = "/review"  -> "Code review failed"
        [] path = "/doc"     -> "Docstring generation failed",
      ": ", e>>
\* the response models of lines 206, 253-257, 296-299
SuccessBody(path) ==
    CASE path = "/predict" -> [predictions |-> "predictions", status |-> "success"]
      [] path = "/review"  -> [reviews |-> "predictions", severity |-> "medium",
                               status |-> "success"]
      [] path = "/doc"     -> [docstrings |-> "predictions", status |-> "success"]

\* Variant: the handler does not test the model before its try block.
EndpointBody_NoModelTest(path, m, predict_outcome) ==
    IF m = <<>>
    THEN [answer |-> Answer(500, FailureDetail(path, "'NoneType' object has no attribute 'predict'"), <<>>),
          predict_calls |-> 0, outcome |-> "not called"]
    ELSE IF predict_outcome = "raise"
    THEN [answer |-> Answer(500, FailureDetail(path, "model error"), <<>>),
          predict_calls |-> 1, outcome |-> "raise"]
    ELSE [answer |-> Answer(200, <<>>, <<SuccessBody(path)>>),
          predict_calls |-> 1, outcome |-> "return"]

\* Variant: the handler has no except clause, the server answers for it.
EndpointBody_NoExcept(path, m, predict_outcome) ==
    IF m = <<>>
    THEN [answer |-> Answer(503, ModelNotLoaded(path), <<>>),
          predict_calls |-> 0, outcome |-> "not called"]
    ELSE IF predict_outcome = "raise"
    THEN [answer |-> Answer(500, <<"Internal Server Error">>, <<>>),
          predict_calls |-> 1, outcome |-> "raise"]
    ELSE [answer |-> Answer(200, <<>>, <<SuccessBody(path)>>),
          predict_calls |-> 1, outcome |-> "return"]

\* The bodies of predict (192-213), review_code (233-264) and
\* generate_docstring (278-306) for a well-formed request: the answer, the
\* number of model.predict invocations and what model.predict did.
EndpointBody(path, m, predict_outcome) ==
    IF m = <<>>
    THEN [answer |-> Answer(503, ModelNotLoaded(path), <<>>),
          predict_calls |-> 0, outcome |-> "not called"]
    ELSE IF predict_outcome = "raise"
    THEN [answer |-> Answer(500, FailureDetail(path, "model error"), <<>>),
          predict_calls |-> 1, outcome |-> "raise"]
    ELSE [answer |-> Answer(200, <<>>, <<SuccessBody(path)>>),
          predict_calls |-> 1, outcome |-> "return"]

\* An endpoint with Depends(get_api_key): the dependency runs first, the body
\* only if it returned (lines 223, 268).
Authenticated(path, key, credentials, m, predict_outcome) ==
    IF GetApiKey(key, credentials) # <<>>
    THEN [answer |-> GetApiKey(key, credentials)[1], predict_calls |-> 0,
          outcome |-> "not called"]
    ELSE EndpointBody(path, m, predict_outcome)

Serving == spc = "serving" /\ handled < MaxRequests

Handle(path, credentials, r) ==
    /\ http_request' = Request(path, credentials, r.outcome)
    /\ http_response' = r.answer
    /\ predict_calls' = r.predict_calls
    /\ handled' = handled + 1
    /\ UNCHANGED <<environ, API_KEY, model, model_uris_to_try, load_attempts, spc>>
    /\ UNCHANGED exceptServe

\* GET /health, lines 172-178
HealthCheck ==
    /\ Serving
    /\ \E credentials \in Credentials :
         Handle("/health", credentials,
                [answer |-> Answer(200, <<>>, <<HealthBody(model)>>),
                 predict_calls |-> 0, outcome |-> "not called"])

\* GET /, lines 309-324
Root ==
    /\ Serving
    /\ \E credentials \in Credentials :
         Handle("/", credentials,
                [answer |-> Answer(200, <<>>,
                    <<[message |-> "Code Generation Model API",
                       authentication |->
                          IF API_KEY # <<>> /\ API_KEY # <<"">>
                          THEN "Bearer token required for /review and /doc endpoints"
                          ELSE "No authentication required (development mode)"]>>),
                 predict_calls |-> 0, outcome |-> "not called"])

\* POST /predict with a well-formed body, lines 181-213
Predict ==
    /\ Serving
    /\ \E credentials \in Credentials, predict_outcome \in {"return", "raise"} :
         Handle("/predict", credentials,
                EndpointBody("/predict", model, predict_outcome))

\* POST /review with a well-formed body, lines 222-264
ReviewCode ==
    /\ Serving
    /\ \E credentials \in Credentials, predict_outcome \in {"return", "raise"} :
         Handle("/review", credentials,
                Authenticated("/review", API_KEY, credentials, model,
                              predict_outcome))

\* POST /doc with a well-formed body, lines 267-306
GenerateDocstring ==
    /\ Serving
    /\ \E credentials \in Credentials, predict_outcome \in {"return", "raise"} :
         Handle("/doc", credentials,
                Authenticated("/doc", API_KEY, credentials, model,
                              predict_outcome))

\* The process's environment is changed while the application runs
\* (os.environ is mutable; line 48 is not executed again).
SetEnvApiKey ==
    /\ Serving
    /\ \E k \in EnvApiKeys :
         /\ k # environ.API_KEY
         /\ environ' = [environ EXCEPT !.API_KEY = k]
    /\ UNCHANGED <<API_KEY, model, model_uris_to_try, load_attempts, spc,
                   http_request, http_response, predict_calls, handled>>
    /\ UNCHANGED exceptServe

ServeNext ==
    \/ Import
    \/ StartupBegin
    \/ LoadModelOk
    \/ LoadModelFail
    \/ HealthCheck
    \/ Root
    \/ Predict
    \/ ReviewCode
    \/ GenerateDocstring
    \/ SetEnvApiKey
----------------------------------------------------------------------------
(* CodeGenerationModel of serving/mlflow_model.py *)

\* Python values that occur as one input: a str, or a float (a missing value)
Str(text) == [type |-> "str", text |-> text]
NaN == [type |-> "float", text |-> "nan"]
Items == {Str("def f():"), NaN}
ItemLists == UNION { [1..n -> Items] : n \in 0..MaxItems }

\* The values of model_input.  A DataFrame is given by its columns in order,
\* a dict by its keys; the column or entry called c holds the one-element
\* list [c] (for a dict with scalar values, the str c itself).
ColumnNames == {"input", "prompt", "text"}
ColumnOrders ==
    { cols \in UNION { [1..n -> ColumnNames] : n \in 0..2 } :
        \A i, j \in 1..Len(cols) : i # j => cols[i] # cols[j] }
DictKeys == {"input", "prompt", "instances", "other"}
ModelInput(type, columns, keys, scalar, items) ==
    [type |-> type, columns |-> columns, keys |-> keys, scalar |-> scalar,
     items |-> items]
ModelInputs ==
    { ModelInput("DataFrame", cols, {}, FALSE, <<>>) : cols \in ColumnOrders }
    \cup { ModelInput("dict", <<>>, keys, scalar, <<>>) :
             keys \in SUBSET DictKeys, scalar \in BOOLEAN }
    \cup { ModelInput("list", <<>>, {}, FALSE, items) : items \in ItemLists }
    \cup { ModelInput(type, <<>>, {}, FALSE, <<>>) : type \in {"int", "str", "tuple"} }

\* Variant: a dict is asked for 'prompt' before 'input'.
ExtractInputs_PromptFirst(mi) ==
    LET cols == { mi.columns[i] : i \in 1..Len(mi.columns) }
    IN  CASE mi.type = "DataFrame" ->
               IF "input" \in cols THEN [raised |-> "", inputs |-> <<Str("input")>>]
               ELSE IF "prompt" \in cols
               THEN [raised |-> "", inputs |-> <<Str("prompt")>>]
               ELSE IF Len(mi.columns) = 0
               THEN [raised |-> "IndexError: single positional indexer is out-of-bounds",
                     inputs |-> <<>>]
               ELSE [raised |-> "", inputs |-> <<Str(mi.columns[1])>>]
          [] mi.type = "dict" ->
               IF "prompt" \in mi.keys THEN [raised |-> "", inputs |-> <<Str("prompt")>>]
               ELSE IF "input" \in mi.keys
               THEN [raised |-> "", inputs |-> <<Str("input")>>]
               ELSE IF "instances" \in mi.keys
               THEN [raised |-> "", inputs |-> <<Str("instances")>>]
               ELSE [raised |-> "", inputs |-> <<>>]
          [] mi.type = "list" -> [raised |-> "", inputs |-> mi.items]
          [] OTHER -> [raised |-> "ValueError: Unsupported input format",
                       inputs |-> <<>>]

\* Lines 124-141: the list the loop runs over, or the exception raised.
\* iloc[:, 0] of a DataFrame without columns raises IndexError.
ExtractInputs(mi) ==
    LET cols == { mi.columns[i] : i \in 1..Len(mi.columns) }
    IN  CASE mi.type = "DataFrame" ->
               IF "input" \in cols THEN [raised |-> "", inputs |-> <<Str("input")>>]
               ELSE IF "prompt" \in cols
               THEN [raised |-> "", inputs |-> <<Str("prompt")>>]
               ELSE IF Len(mi.columns) = 0
               THEN [raised |-> "IndexError: single positional indexer is out-of-bounds",
                     inputs |-> <<>>]
               ELSE [raised |-> "", inputs |-> <<Str(mi.columns[1])>>]
          [] mi.type = "dict" ->
               IF "input" \in mi.keys THEN [raised |-> "", inputs |-> <<Str("input")>>]
               ELSE IF "prompt" \in mi.keys
               THEN [raised |-> "", inputs |-> <<Str("prompt")>>]
               ELSE IF "instances" \in mi.keys
               THEN [raised |-> "", inputs |-> <<Str("instances")>>]
               ELSE [raised |-> "", inputs |-> <<>>]
          [] mi.type = "list" -> [raised |-> "", inputs |-> mi.items]
          [] OTHER -> [raised |-> "ValueError: Unsupported input format",
                       inputs |-> <<>>]

\* generation configurations are dicts: functions from parameter names
DefaultGenerationConfig ==
    [max_new_tokens |-> 256, num_beams |-> 4, do_sample |-> FALSE,
     early_stopping |-> TRUE, pad_token_id |-> 0]
ArtifactConfigs == {<<>>, <<[max_new_tokens |-> 64, num_beams |-> 1]>>}
ParamSets == {<<>>, << <<>> >>, <<[max_new_tokens |-> 8]>>, <<[temperature |-> 1]>>}
\* dict.update
Update(d, other) ==
    [k \in DOMAIN d \cup DOMAIN other |-> IF k \in DOMAIN other THEN other[k] ELSE d[k]]

\* lines 144-146: the keyword arguments of model.generate
GenerationKwargs(config, p) ==
    IF p = <<>> \/ DOMAIN p[1] = {} THEN config ELSE Update(config, p[1])

\* Variant: params are merged into the stored dict, not into a copy.
ConfigAfterPredict_NoCopy(config, p) ==
    IF p = <<>> \/ DOMAIN p[1] = {} THEN config ELSE Update(config, p[1])

\* line 144: update works on a copy, self.generation_config stays as it is
ConfigAfterPredict(config, p) == config

\* What happens to one str input: every step works, or tokenizer.encode,
\* model.generate or tokenizer.decode raises.
ItemOutcomes == {"ok", "encode", "generate", "decode"}
\* a float input cannot be tokenized
OutcomeChoices(items) ==
    { o \in [1..Len(items) -> ItemOutcomes] :
        \A i \in 1..Len(items) : items[i].type # "str" => o[i] = "encode" }

\* lines 178 and 182: the entry appended for one input
Output(item, outcome) ==
    IF outcome = "ok" THEN <<"completion of", item.text>>
    ELSE <<"[Error: ", outcome, "]">>

\* Lines 148-184.  The except clause of line 180 formats input_text[:50]
\* (line 181): for an input that is not subscriptable this raises TypeError
\* inside the handler, which ends the loop and the call.
PredictLoop(items, outcomes) ==
    LET bad == { i \in 1..Len(items) : items[i].type # "str" }
    IN  IF bad = {}
        THEN [raised |-> "", reached |-> Len(items),
              predictions |-> [i \in 1..Len(items) |-> Output(items[i], outcomes[i])]]
        ELSE [raised |-> "TypeError: 'float' object is not subscriptable",
              reached |-> CHOOSE i \in bad : \A j \in bad : i <= j,
              predictions |-> <<>>]

NoModelInput == ModelInput("none", <<>>, {}, FALSE, <<>>)

\* the class when it is not the program under study
GenerateIdle ==
    /\ artifact_config = <<>>
    /\ generation_config = <<>>
    /\ gpc = "idle"
    /\ model_input = NoModelInput
    /\ params = <<>>
    /\ inputs = <<>>
    /\ item_outcomes = <<>>
    /\ generate_kwargs = <<>>
    /\ tokenizer_calls = 0
    /\ predictions = <<>>
    /\ predict_raised = ""
    /\ ncalls = 0

\* __init__, lines 29-33, and the model artifact the instance will load
GenerateInit ==
    /\ artifact_config \in ArtifactConfigs
    /\ generation_config = <<>>
    /\ gpc = "new"
    /\ model_input = NoModelInput
    /\ params = <<>>
    /\ inputs = <<>>
    /\ item_outcomes = <<>>
    /\ generate_kwargs = <<>>
    /\ tokenizer_calls = 0
    /\ predictions = <<>>
    /\ predict_raised = ""
    /\ ncalls = 0

\* load_context, lines 94-107: the configuration of the artifact, or the
\* default one
LoadContext ==
    /\ gpc = "new"
    /\ generation_config' = IF artifact_config # <<>> THEN artifact_config
                            ELSE <<DefaultGenerationConfig>>
    /\ gpc' = "ready"
    /\ UNCHANGED <<artifact_config, model_input, params, inputs, item_outcomes,
                   generate_kwargs, tokenizer_calls, predictions, predict_raised,
                   ncalls>>
    /\ UNCHANGED exceptGenerate

\* the positions of the inputs model.generate was called for
GeneratedFor(outcomes, reached) ==
    { i \in 1..reached : outcomes[i] # "encode" }

\* predict, lines 111-184, one call
PredictCall ==
    /\ gpc = "ready"
    /\ ncalls < MaxPredictCalls
    /\ \E mi \in ModelInputs, p \in ParamSets :
       \E x \in {ExtractInputs(mi)} :
       \E outcomes \in OutcomeChoices(x.inputs) :
       \E r \in {PredictLoop(x.inputs, outcomes)} :
         /\ model_input' = mi
         /\ params' = p
         /\ inputs' = x.inputs
         /\ IF x.raised # ""
            THEN /\ predict_raised' = x.raised
                 /\ generation_config' = generation_config
                 /\ item_outcomes' = <<>>
                 /\ generate_kwargs' = <<>>
                 /\ tokenizer_calls' = 0
                 /\ predictions' = <<>>
            ELSE /\ predict_raised' = r.raised
                 /\ generation_config' =
                        <<ConfigAfterPredict(generation_config[1], p)>>
                 /\ item_outcomes' = SubSeq(outcomes, 1, r.reached)
                 /\ generate_kwargs' =
                        [n \in 1..Cardinality(GeneratedFor(outcomes, r.reached)) |->
                            GenerationKwargs(generation_config[1], p)]
                 /\ tokenizer_calls' = r.reached
                 /\ predictions' = r.predictions
    /\ ncalls' = ncalls + 1
    /\ UNCHANGED <<artifact_config, gpc>>
    /\ UNCHANGED exceptGenerate

GenerateNext ==
    \/ LoadContext
    \/ PredictCall

----------------------------------------------------------------------------
(* split_data of utils/data_preparation.py *)

\* a fraction f stands for f / FractionSteps
Fractions == 0..FractionSteps
\* the list [1, ..., n]
Iota(n) == [i \in 1..n |-> i]
Shuffles(n) ==
    { f \in [1..n -> 1..n] : \A i, j \in 1..n : i # j => f[i] # f[j] }

\* Python's s[a:b] for 0 <= a, 0 <= b
Slice(s, a, b) ==
    LET e == Min2(b, Len(s))
    IN  IF a >= e THEN <<>> ELSE SubSeq(s, a + 1, e)

\* Variant: the test part begins one item late.
SplitData_TestStartsLate(shuffled, train, val) ==
    LET n         == Len(shuffled)
        train_end == (n * train) \div FractionSteps
        val_end   == train_end + (n * val) \div FractionSteps
    IN  <<Slice(shuffled, 0, train_end), Slice(shuffled, train_end, val_end),
          Slice(shuffled, val_end + 1, n)>>

\* lines 22-30, on the list as line 20 left it; int() of a non-negative
\* product rounds down
SplitData(shuffled, train, val) ==
    LET n         == Len(shuffled)
        train_end == (n * train) \div FractionSteps
        val_end   == train_end + (n * val) \div FractionSteps
    IN  <<Slice(shuffled, 0, train_end), Slice(shuffled, train_end, val_end),
          Slice(shuffled, val_end, n)>>

SplitIdle ==
    /\ data = <<>>
    /\ train_size = 0
    /\ val_size = 0
    /\ split = <<>>
    /\ dpc = "idle"

\* the arguments of the call
SplitInit ==
    /\ data \in { Iota(n) : n \in 0..MaxData }
    /\ train_size \in Fractions
    /\ val_size \in Fractions
    /\ split = <<>>
    /\ dpc = "call"

\* split_data, lines 17-30.  random.shuffle (line 20) reorders the caller's
\* list in place; the order it produces is some permutation.
SplitDataCall ==
    /\ dpc = "call"
    /\ \E perm \in Shuffles(Len(data)) :
         LET shuffled == [i \in 1..Len(data) |-> data[perm[i]]]
         IN  /\ data' = shuffled
             /\ split' = <<SplitData(shuffled, train_size, val_size)>>
    /\ dpc' = "returned"
    /\ UNCHANGED <<train_size, val_size>>
    /\ UNCHANGED exceptSplit

SplitNext == SplitDataCall

----------------------------------------------------------------------------
(* run_quality_gates.py *)

\* the checks of lines 57-93
Checks ==
    << [description |-> "Ruff Linting Check",       continue_on_error |-> TRUE],
       [description |-> "Ruff Format Check",        continue_on_error |-> TRUE],
       [description |-> "Black Format Check",       continue_on_error |-> TRUE],
       [description |-> "Import Sort Check",        continue_on_error |-> TRUE],
       [description |-> "MyPy Type Checking",       continue_on_error |-> TRUE],
       [description |-> "Bandit Security Scan",     continue_on_error |-> TRUE],
       [description |-> "Unit Tests with Coverage", continue_on_error |-> TRUE] >>

\* How subprocess.run ends: with the command's return code (<<code>>), or by
\* raising (<<>>).
RunOutcomes == {<<0>>, <<1>>, <<>>}

\* Variant: continue_on_error is not looked at.
RunCommand_Strict(outcome, continue_on_error) ==
    outcome # <<>> /\ outcome[1] = 0

\* run_command, lines 23-43: the value returned
RunCommand(outcome, continue_on_error) ==
    IF outcome = <<>> THEN FALSE
    ELSE IF outcome[1] # 0 /\ ~continue_on_error THEN FALSE
    ELSE TRUE

GateIdle ==
    /\ check_results = <<>>
    /\ passed = 0
    /\ summary = ""
    /\ exit_code = <<>>
    /\ qpc = "idle"

GateInit ==
    /\ check_results = <<>>
    /\ passed = 0
    /\ summary = ""
    /\ exit_code = <<>>
    /\ qpc = "start"

\* lines 52-54: not started from the project root
WrongDirectory ==
    /\ qpc = "start"
    /\ exit_code' = <<1>>
    /\ qpc' = "exited"
    /\ UNCHANGED <<check_results, passed, summary>>
    /\ UNCHANGED exceptGate

\* lines 52-97: the directory is right, the loop is entered
EnterChecks ==
    /\ qpc = "start"
    /\ qpc' = "checks"
    /\ UNCHANGED <<check_results, passed, summary, exit_code>>
    /\ UNCHANGED exceptGate

\* lines 99-106, one iteration
RunCheck ==
    /\ qpc = "checks"
    /\ Len(check_results) < Len(Checks)
    /\ \E outcome \in RunOutcomes :
         LET check   == Checks[Len(check_results) + 1]
             ok    == RunCommand(outcome, check.continue_on_error)
         IN  /\ check_results' = Append(check_results, outcome)
             /\ passed' = IF ok THEN passed + 1 ELSE passed
    /\ UNCHANGED <<summary, exit_code, qpc>>
    /\ UNCHANGED exceptGate

\* lines 108-119
Summarise ==
    /\ qpc = "checks"
    /\ Len(check_results) = Len(Checks)
    /\ summary' = IF passed = Len(Checks) THEN "All quality gates passed!"
                  ELSE "quality gate(s) need attention"
    /\ qpc' = "summary"
    /\ UNCHANGED <<check_results, passed, exit_code>>
    /\ UNCHANGED exceptGate

\* lines 142-147
Exit ==
    /\ qpc = "summary"
    /\ exit_code' = IF passed = Len(Checks) THEN <<0>> ELSE <<1>>
    /\ qpc' = "exited"
    /\ UNCHANGED <<check_results, passed, summary>>
    /\ UNCHANGED exceptGate

GateNext ==
    \/ WrongDirectory
    \/ EnterChecks
    \/ RunCheck
    \/ Summarise
    \/ Exit

----------------------------------------------------------------------------
(* The specifications: each program runs on its own *)

InitDrift == DriftInit /\ PromoteIdle /\ ServeIdle /\ GenerateIdle /\ SplitIdle /\ GateIdle
SpecDrift == InitDrift /\ [][DriftNext]_vars

InitPromote == PromoteInit /\ DriftIdle /\ ServeIdle /\ GenerateIdle /\ SplitIdle /\ GateIdle
SpecPromote == InitPromote /\ [][PromoteNext]_vars

InitDetect == DetectInit /\ PromoteIdle /\ ServeIdle /\ GenerateIdle /\ SplitIdle /\ GateIdle
SpecDetect == InitDetect /\ [][DetectNext]_vars

InitServe == ServeInit /\ DriftIdle /\ PromoteIdle /\ GenerateIdle /\ SplitIdle /\ GateIdle
SpecServe == InitServe /\ [][ServeNext]_vars

InitGenerate == GenerateInit /\ DriftIdle /\ PromoteIdle /\ ServeIdle /\ SplitIdle /\ GateIdle
SpecGenerate == InitGenerate /\ [][GenerateNext]_vars

InitSplit == SplitInit /\ DriftIdle /\ PromoteIdle /\ ServeIdle /\ GenerateIdle /\ GateIdle
SpecSplit == InitSplit /\ [][SplitNext]_vars

InitGate == GateInit /\ DriftIdle /\ PromoteIdle /\ ServeIdle /\ GenerateIdle /\ SplitIdle
SpecGate == InitGate /\ [][GateNext]_vars

----------------------------------------------------------------------------
(* Properties of the drift job *)

CountCalls(name) == Cardinality({i \in 1..Len(calls) : calls[i].call = name})
CallFailed(name) == \E i \in 1..Len(calls) : calls[i].call = name /\ ~calls[i].ok
CallSucceeded(name) == \E i \in 1..Len(calls) : calls[i].call = name /\ calls[i].ok

Returned == pc = "done" /\ Len(response) = 1
\* The set a load returned, while the handler still holds it
TrainingIs(e) == training_embeddings = <<e>>
RecentIs(e) == recent_embeddings = <<e>>
TrainingEmpty == TrainingIs(<<>>)
RecentEmpty == RecentIs(<<>>)
\* Both sets loaded and non-empty, of different dimensionality
DimensionMismatch ==
    /\ Len(training_embeddings) = 1 /\ Len(recent_embeddings) = 1
    /\ NumSamples(training_embeddings[1]) > 0
    /\ NumSamples(recent_embeddings[1]) > 0
    /\ NumCols(training_embeddings[1]) # NumCols(recent_embeddings[1])
    /\ NumCols(training_embeddings[1]) > 0
    /\ NumCols(recent_embeddings[1]) > 0
\* detect_drift was called with the two loaded sets and raised
DetectRaised ==
    /\ Len(training_embeddings) = 1 /\ Len(recent_embeddings) = 1
    /\ NumSamples(recent_embeddings[1]) > 0
    /\ DetectError(training_embeddings[1], recent_embeddings[1]) # ""
    /\ pc \in {"except", "done"}

\* C1: for every drift report, the drift decision is true exactly when
\* ks_test_p_value < 0.05 or cosine_similarity_change > 0.1 or
\* mean_shift_magnitude > 0.2 (strict comparisons); the decision returned in
\* the response is that decision.
C1_DriftDecision ==
    /\ drift_results # <<>> =>
         drift_detected = ( \/ drift_results[1].ks_test_p_value < 5
                            \/ drift_results[1].cosine_similarity_change > 10
                            \/ drift_results[1].mean_shift_magnitude > 20 )
    /\ (Returned /\ response[1].status = "completed") =>
         response[1].drift_detected =
             ( \/ response[1].results.ks_test_p_value < 5
               \/ response[1].results.cosine_similarity_change > 10
               \/ response[1].results.mean_shift_magnitude > 20 )

\* C1 witness: a completed run where the mean shift alone triggers.
C1_Witness ==
    /\ Returned /\ response[1].status = "completed"
    /\ response[1].drift_detected
    /\ response[1].results.ks_test_p_value = 5
    /\ response[1].results.cosine_similarity_change <= 10
    /\ response[1].results.mean_shift_magnitude > 20

\* C1, second case: a completed run where all three values are at or within
\* their thresholds and no drift is reported although the sets differ.
C1_WitnessNoDrift ==
    /\ Returned /\ response[1].status = "completed"
    /\ ~response[1].drift_detected
    /\ response[1].results.ks_test_p_value = 5
    /\ response[1].results.mean_shift_magnitude > 0

C4_WitnessEmptyTraining ==
    /\ Returned /\ TrainingEmpty /\ Len(recent_embeddings) = 1 /\ ~RecentEmpty
    /\ response[1].status = "error"

\* C5 as stated: with two non-empty sets of different dimensionality the run
\* still completes with a full report.
C5_MismatchCompletes ==
    (Returned /\ DimensionMismatch) =>
        /\ response[1].statusCode = 200
        /\ response[1].status = "completed"

\* C6: once detect_drift has produced a report, no failure of the alert
\* publish or of the result store propagates: the run returns statusCode
\* 200, status 'completed' and the report as detect_drift produced it.
C6_SideEffectsContained ==
    drift_results # <<>> =>
        /\ pc \in {"alert", "store", "done"}
        /\ error = ""
        /\ CountCalls("sns_publish_error") = 0
        /\ pc = "done" =>
             /\ Len(response) = 1
             /\ response[1].statusCode = 200
             /\ response[1].status = "completed"
             /\ response[1].results = drift_results[1]

\* C6, the report is never changed after detect_drift produced it.
C6_ReportUnchanged ==
    [][drift_results # <<>> => drift_results' = drift_results]_vars

\* C6 witness: a completed run whose alert publish and result store both
\* failed.
C6_Witness ==
    /\ Returned /\ response[1].status = "completed"
    /\ CallFailed("sns_publish_drift")
    /\ CallFailed("s3_put_results")

\* C7: when a load or the computation raises, the run returns statusCode
\* 500 with status 'error', makes exactly one error-alert attempt, stores
\* nothing and sends no drift alert, whether or not the error alert fails.
C7_FailedRun ==
    (pc = "done" /\ ( \/ CallFailed("s3_get_training")
                      \/ CallFailed("s3_list_recent")
                      \/ DetectRaised )) =>
        /\ Len(response) = 1
        /\ response[1].statusCode = 500
        /\ response[1].status = "error"
        /\ response[1].message = error
        /\ CountCalls("sns_publish_error") = 1
        /\ CountCalls("s3_put_results") = 0
        /\ CountCalls("sns_publish_drift") = 0
        /\ drift_results = <<>>

\* C7 witness: the computation raised and the error alert itself failed.
C7_Witness ==
    /\ Returned /\ DetectRaised
    /\ CallFailed("sns_publish_error")
    /\ response[1].statusCode = 500

----------------------------------------------------------------------------
(* Properties of detect_drift *)

DetectReturned == pc = "detect_returned"
\* the centroid of the set is the zero vector
ZeroCentroid(e) == \A d \in 1..NumCols(e) : ColSums(e)[d] = 0
EqualSets == training_embeddings = recent_embeddings

C14_WitnessAllZero ==
    /\ DetectReturned /\ EqualSets
    /\ ZeroCentroid(training_embeddings[1])
    /\ drift_results[1].cosine_similarity = 0

\* C15: when the centroid of either set has zero norm, the report has
\* cosine_similarity 0 and cosine_similarity_change 1, and the drift decision
\* under the default thresholds is true.
C15_ZeroNormCentroid ==
    ( /\ DetectReturned
      /\ \/ ZeroCentroid(training_embeddings[1])
         \/ ZeroCentroid(recent_embeddings[1]) ) =>
        /\ drift_results[1].cosine_similarity = 0
        /\ drift_results[1].cosine_similarity_change = 100
        /\ DriftDetected(drift_results[1])

\* a zero training centroid against a non-zero recent one, with p-values
\* that do not by themselves signal drift
C15_Witness ==
    /\ DetectReturned
    /\ ZeroCentroid(training_embeddings[1])
    /\ ~ZeroCentroid(recent_embeddings[1])
    /\ drift_results[1].ks_test_p_value = DRIFT_THRESHOLD_KS
    /\ drift_results[1].cosine_similarity = 0

----------------------------------------------------------------------------
(* Properties of the comparison and promotion script *)

NumRegCalls(name) ==
    Cardinality({i \in 1..Len(registry_calls) : registry_calls[i].call = name})
RegCallEnded(name, outcome) ==
    \E i \in 1..Len(registry_calls) :
        registry_calls[i].call = name /\ registry_calls[i].outcome = outcome
SomeRegCallRaised ==
    \E i \in 1..Len(registry_calls) : registry_calls[i].outcome = "raise"

PromoteDone == mpc = "done" /\ request.op = "promote"
AutoPromoteDone == mpc = "done" /\ request.op = "auto_promote"
CompareDone == mpc = "done" /\ request.op = "compare"

\* the experiment was found and its runs were searched without error
StoreAnswered ==
    /\ RegCallEnded("get_experiment_by_name", "found")
    /\ RegCallEnded("search_runs", "ok")
NoRunHasMetric ==
    \A i \in 1..Len(runs) : ~HasMetric(runs[i], request.metric_name)
\* the run that ranks first for the requested metric and direction
BestRun == SearchRuns(runs, request.metric_name, request.ascending, 1)[1]
VersionsOfRun(run_id) ==
    {i \in 1..Len(model_versions) : model_versions[i].run_id = run_id}
\* the exception the failed registry call of promote_model raised
PromoteCause ==
    IF ~VersionExists(model_versions, request.version)
    THEN "RestException: RESOURCE_DOES_NOT_EXIST"
    ELSE IF RegCallEnded("transition_model_version_stage", "raise")
    THEN "MlflowException: transition failed"
    ELSE "MlflowException: update failed"

\* C2: with a description supplied, if the stage transition succeeds and the
\* description update fails, promote still reports success.
C2_PartialFailureSucceeds ==
    ( /\ PromoteDone
      /\ request.description # <<>>
      /\ RegCallEnded("transition_model_version_stage", "ok")
      /\ RegCallEnded("update_model_version", "raise") ) =>
        success = <<"True">>

\* C3: autoPromoteBest returns a failure without raising and without any
\* stage-transition or description-update call when the experiment has no
\* runs, when none of its runs carries the requested metric, or when no
\* version of the model references the best run.
C3_NoCandidateFails ==
    ( /\ AutoPromoteDone
      /\ StoreAnswered
      /\ \/ Len(runs) = 0
         \/ NoRunHasMetric
         \/ VersionsOfRun(BestRun.run_id) = {} ) =>
        /\ raised = ""
        /\ success = <<"False">>
        /\ NumRegCalls("transition_model_version_stage") = 0
        /\ NumRegCalls("update_model_version") = 0

C8_WitnessNoVersion ==
    /\ PromoteDone
    /\ ~VersionExists(model_versions, request.version)
    /\ success = <<"False">>
    /\ raised = ""

\* C9: when autoPromoteBest succeeds, the one version it transitions to the
\* target stage is the first version, in the order of the registry's
\* version search, whose run id is the best run's; no other version is
\* transitioned, even when several versions reference that run.
C9_FirstMatchPromoted ==
    (AutoPromoteDone /\ success = <<"True">>) =>
        /\ Len(best_run_id) = 1
        /\ VersionsOfRun(best_run_id[1]) # {}
        /\ LET first == CHOOSE i \in VersionsOfRun(best_run_id[1]) :
                            \A j \in VersionsOfRun(best_run_id[1]) : i <= j
           IN  /\ NumRegCalls("transition_model_version_stage") = 1
               /\ \A k \in 1..Len(registry_calls) :
                     registry_calls[k].call \in {"transition_model_version_stage",
                                                 "update_model_version"}
                        => registry_calls[k].arg = model_versions[first].version
               /\ \A i \in 1..Len(model_versions) :
                     model_versions[i].current_stage =
                        IF i = first THEN request.stage ELSE "None"

\* C9 witness: a successful auto-promotion with two versions of the best run.
C9_Witness ==
    /\ AutoPromoteDone /\ success = <<"True">>
    /\ Cardinality(VersionsOfRun(best_run_id[1])) >= 2

\* C10: compare_experiment_runs never returns a run that lacks the requested
\* metric.
C10_OnlyRunsWithMetric ==
    (CompareDone /\ raised = "") =>
        \A i \in 1..Len(df) : HasMetric(df[i], request.metric_name)

\* the runs of the experiment that carry the requested metric
NumMatchingRuns ==
    Cardinality({i \in 1..Len(runs) : HasMetric(runs[i], request.metric_name)})
\* the experiment lookup returned None or raised
LookupFailed ==
    \/ RegCallEnded("get_experiment_by_name", "none")
    \/ RegCallEnded("get_experiment_by_name", "raise")
\* a tracking store every call of which succeeds
StoreUp == [experiment |-> "found", search_runs |-> "ok", search_versions |-> "ok",
            get_run |-> "ok", transition |-> "ok", update |-> "ok"]
\* what the caller gets back for an experiment that exists and has no runs
EmptyExperimentRanking ==
    CompareExperimentRuns(<<>>, StoreUp, request.metric_name, request.top_k,
                          request.ascending)
EmptyExperimentBest ==
    FindBestModel(<<>>, StoreUp, request.metric_name, request.ascending)

\* C11: compare_experiment_runs returns exactly min(top_k, number of runs
\* carrying the metric) entries, ordered by the metric in the requested
\* direction; all of them when top_k is larger, and an empty result (no
\* error) when no run carries the metric.
C11_RankCountAndOrder ==
    (CompareDone /\ StoreAnswered) =>
        /\ raised = ""
        /\ Len(df) = Min2(request.top_k, NumMatchingRuns)
        /\ \A i \in 1..Len(df) : HasMetric(df[i], request.metric_name)
        /\ \A i, j \in 1..Len(df) :
              i < j =>
                IF request.ascending
                THEN df[i].metrics[request.metric_name]
                        <= df[j].metrics[request.metric_name]
                ELSE df[i].metrics[request.metric_name]
                        >= df[j].metrics[request.metric_name]

\* C12: a failed experiment lookup never gives the caller of
\* compare_experiment_runs / find_best_model the result that an existing
\* experiment without runs gives.
C12_LookupFailureDistinct ==
    /\ (CompareDone /\ LookupFailed) =>
          <<raised, df>> # <<EmptyExperimentRanking.raised,
                             EmptyExperimentRanking.df>>
    /\ (AutoPromoteDone /\ LookupFailed) =>
          <<raised, best_run_id>> # <<EmptyExperimentBest.raised,
                                      EmptyExperimentBest.best>>

\* C13: find_best_model returns the run id of the first entry of
\* compare_experiment_runs(top_k = 1, ascending = minimize), None when that
\* ranking is empty, and does so for every content of the store.
C13_FindBestIsTopOfRank ==
    (AutoPromoteDone /\ StoreAnswered) =>
        /\ raised = ""
        /\ best_run_id =
             (LET ranking == CompareExperimentRuns(runs, StoreUp,
                                 request.metric_name, 1, request.ascending).df
              IN  IF Len(ranking) = 0 THEN <<>> ELSE <<ranking[1].run_id>>)

----------------------------------------------------------------------------
(* Properties of the serving application *)

\* the request handled last was for this path
Asked(path) == handled > 0 /\ http_request.path = path
ModelLoaded == model # <<>>
\* the application holds no key: get_api_key lets every request through
DevelopmentMode == API_KEY = <<>> \/ API_KEY = <<"">>
\* the request carries the key the application holds, which is also the
\* value of the environment variable
CorrectlyAuthenticated ==
    /\ ~DevelopmentMode
    /\ http_request.credentials = API_KEY
    /\ http_request.env_api_key = API_KEY

\* C16: GET /health answers 200 and its body tells the model state: status
\* "healthy" and model_loaded true exactly when a model is loaded, else
\* status "degraded" and model_loaded false.
C16_HealthReflectsModel ==
    Asked("/health") =>
        /\ http_response.status_code = 200
        /\ IF ModelLoaded
           THEN http_response.body =
                    <<[status |-> "healthy", model_loaded |-> TRUE]>>
           ELSE http_response.body =
                    <<[status |-> "degraded", model_loaded |-> FALSE]>>

C16_Witness ==
    /\ Asked("/health") /\ ~ModelLoaded
    /\ Len(load_attempts) = Len(model_uris_to_try)
    /\ http_response.body[1].status = "degraded"

C16_WitnessHealthy ==
    /\ Asked("/health") /\ ModelLoaded /\ handled = MaxRequests
    /\ http_response.body[1].status = "healthy"

\* C17: while no model is loaded, a POST to /predict and a correctly
\* authenticated POST to /review are answered 503 "Model not loaded" and
\* model.predict is not invoked.
C17_NoModelUnavailable ==
    ( /\ ~ModelLoaded
      /\ \/ Asked("/predict")
         \/ Asked("/review") /\ CorrectlyAuthenticated ) =>
        /\ http_response.status_code = 503
        /\ http_response.detail[1] = "Model not loaded"
        /\ predict_calls = 0

C17_Witness ==
    /\ ~ModelLoaded
    /\ Asked("/review") /\ CorrectlyAuthenticated
    /\ http_response.status_code = 503

C17_WitnessPredict ==
    /\ ~ModelLoaded
    /\ Asked("/predict")
    /\ http_response.detail = <<"Model not loaded", ". Service is not ready.">>

\* C18: when model.predict raises during a /predict, /review or /doc
\* request, the answer is 500 with a detail that begins "Prediction failed",
\* "Code review failed" or "Docstring generation failed", and the model is
\* still loaded afterwards.
C18_PredictFailureIs500 ==
    (handled > 0 /\ http_request.predict_outcome = "raise") =>
        /\ http_response.status_code = 500
        /\ http_response.detail[1] =
              (CASE http_request.path = "/predict" -> "Prediction failed"
                 [] http_request.path = "/review"  -> "Code review failed"
                 [] http_request.path = "/doc" -> "Docstring generation failed")
        /\ ModelLoaded

\* the second of two requests fails in model.predict
C18_Witness ==
    /\ handled = MaxRequests
    /\ Asked("/doc")
    /\ http_request.predict_outcome = "raise"
    /\ http_response.detail[1] = "Docstring generation failed"

\* C19: with a model loaded and the environment variable API_KEY set to a
\* key K while the request is handled, a POST to /review or /doc whose token
\* is missing or is not K is answered 401 "Invalid or missing API key" and
\* model.predict is not invoked.
C19_WrongKeyRejected ==
    ( /\ Asked("/review") \/ Asked("/doc")
      /\ ModelLoaded
      /\ http_request.env_api_key \in { <<k>> : k \in Keys }
      /\ http_request.credentials # http_request.env_api_key ) =>
        /\ http_response.status_code = 401
        /\ http_response.detail = <<"Invalid or missing API key">>
        /\ predict_calls = 0

\* C20: in development mode /review and /doc answer a request with no or any
\* credentials as they answer an authenticated one; /predict answers without
\* looking at credentials whether or not a key is held.
C20_DevModeOpen ==
    LET path == http_request.path
        body == EndpointBody(path, model, http_request.predict_outcome)
    IN  /\ ( /\ Asked("/review") \/ Asked("/doc")
             /\ DevelopmentMode \/ CorrectlyAuthenticated ) =>
               /\ http_response = body.answer
               /\ predict_calls = body.predict_calls
        /\ Asked("/predict") =>
               /\ http_response = body.answer
               /\ predict_calls = body.predict_calls

C20_Witness ==
    /\ Asked("/review") /\ DevelopmentMode /\ ModelLoaded
    /\ http_request.credentials = <<"k1">>
    /\ http_response.status_code = 200

C20_WitnessPredict ==
    /\ Asked("/predict") /\ ~DevelopmentMode /\ ModelLoaded
    /\ http_request.credentials = <<>>
    /\ http_response.status_code = 200

\* s is the beginning of t
IsPrefix(s, t) == Len(s) <= Len(t) /\ \A i \in 1..Len(s) : s[i] = t[i]
StartupOver == spc = "serving"
\* the values of the four variables startup_event reads
NameOrDefault == IF environ.MODEL_NAME = <<>> THEN DefaultModelName
                 ELSE environ.MODEL_NAME[1]
StageOrDefault == IF environ.MODEL_STAGE = <<>> THEN "Production"
                  ELSE environ.MODEL_STAGE[1]
LocalIfSet == IF environ.LOCAL_MODEL_PATH = <<>> THEN <<>>
              ELSE <<environ.LOCAL_MODEL_PATH[1]>>
FallbackOrDefault == IF environ.MODEL_URI = <<>> THEN DefaultFallbackUri
                     ELSE environ.MODEL_URI[1]
WithFallback(listed) ==
    IF \E i \in 1..Len(listed) : listed[i] = FallbackOrDefault
    THEN listed ELSE listed \o <<FallbackOrDefault>>
\* the candidates as listed in C21, the two registry URIs always among them
CandidatesAlwaysNamed ==
    WithFallback(<<ModelsUri(NameOrDefault, StageOrDefault),
                   ModelsUri(NameOrDefault, "latest")>> \o LocalIfSet)
\* the same, the two registry URIs only for a non-empty MODEL_NAME
CandidatesIfNamed ==
    WithFallback((IF NameOrDefault = "" THEN <<>>
                  ELSE <<ModelsUri(NameOrDefault, StageOrDefault),
                         ModelsUri(NameOrDefault, "latest")>>) \o LocalIfSet)
\* the attempts made follow the list; a loaded model comes from the last
\* attempt; without a model after startup every candidate was attempted
AttemptsFollow(candidates) ==
    (spc = "loading" \/ StartupOver) =>
        /\ IsPrefix(load_attempts, candidates)
        /\ ModelLoaded =>
              /\ StartupOver
              /\ load_attempts # <<>>
              /\ model[1].uri = load_attempts[Len(load_attempts)]
        /\ (StartupOver /\ ~ModelLoaded) => load_attempts = candidates

C21_WitnessDegraded ==
    /\ StartupOver /\ ~ModelLoaded
    /\ environ.MODEL_NAME = <<"">>
    /\ Len(load_attempts) = 2
    /\ handled = MaxRequests

----------------------------------------------------------------------------
(* Properties of CodeGenerationModel *)

Predicted == ncalls > 0
\* the list a column or a dict entry called name holds
Held(name) == <<Str(name)>>
ColumnsOf(mi) == { mi.columns[i] : i \in 1..Len(mi.columns) }
NothingTokenized == tokenizer_calls = 0 /\ generate_kwargs = <<>>

\* C22: predict takes its inputs from column 'input', else column 'prompt',
\* else the first column of a DataFrame; from key 'input', else 'prompt',
\* else 'instances', else the empty list, of a dict; a list as it is; any
\* other type raises ValueError "Unsupported input format" before anything
\* is tokenized or generated.
C22_InputExtraction ==
    Predicted =>
        CASE model_input.type = "DataFrame" /\ Len(model_input.columns) > 0 ->
               inputs = (IF "input" \in ColumnsOf(model_input) THEN Held("input")
                         ELSE IF "prompt" \in ColumnsOf(model_input)
                         THEN Held("prompt")
                         ELSE Held(model_input.columns[1]))
          [] model_input.type = "dict" ->
               inputs = (IF "input" \in model_input.keys THEN Held("input")
                         ELSE IF "prompt" \in model_input.keys THEN Held("prompt")
                         ELSE IF "instances" \in model_input.keys
                         THEN Held("instances")
                         ELSE <<>>)
          [] model_input.type = "list" -> inputs = model_input.items
          [] model_input.type \in {"int", "str", "tuple"} ->
               /\ predict_raised = "ValueError: Unsupported input format"
               /\ NothingTokenized
          [] OTHER -> TRUE

\* a DataFrame whose first column is neither 'input' nor 'prompt', but whose
\* second is 'prompt'
C22_Witness ==
    /\ Predicted
    /\ model_input.type = "DataFrame"
    /\ model_input.columns = <<"text", "prompt">>
    /\ inputs = Held("prompt")
    /\ predict_raised = ""

C22_WitnessDict ==
    /\ Predicted
    /\ model_input.type = "dict"
    /\ model_input.keys = {"prompt", "instances", "other"}
    /\ inputs = Held("prompt")

C22_WitnessUnsupported ==
    /\ ncalls = MaxPredictCalls
    /\ model_input.type = "tuple"
    /\ predict_raised = "ValueError: Unsupported input format"

\* the last call got as far as its loop over the inputs
LoopEntered ==
    /\ Predicted
    /\ model_input.type \in {"DataFrame", "dict", "list"}
    /\ ~(model_input.type = "DataFrame" /\ Len(model_input.columns) = 0)

\* C28: predict returns one output per input, in the order of the inputs: the
\* completion where every step worked, an "[Error: ...]" placeholder where
\* tokenization, generation or decoding failed; a failure for one input
\* never ends the call with an exception.
C28_OneOutputPerInput ==
    LoopEntered =>
        /\ predict_raised = ""
        /\ Len(predictions) = Len(inputs)
        /\ \A i \in 1..Len(predictions) :
              IF item_outcomes[i] = "ok"
              THEN predictions[i] = <<"completion of", inputs[i].text>>
              ELSE predictions[i][1] = "[Error: "

\* the configuration load_context stores for the artifact
LoadedConfig ==
    IF artifact_config # <<>> THEN artifact_config[1] ELSE DefaultGenerationConfig

\* C29: after any calls of predict, with any params, self.generation_config
\* is what load_context set; a call without params passes exactly that
\* configuration to model.generate.
C29_ParamsDoNotLeak ==
    gpc = "ready" =>
        /\ generation_config = <<LoadedConfig>>
        /\ (Predicted /\ params = <<>>) =>
              \A i \in 1..Len(generate_kwargs) : generate_kwargs[i] = LoadedConfig

\* the second call overrode max_new_tokens for itself only
C29_Witness ==
    /\ ncalls = MaxPredictCalls
    /\ params = <<[max_new_tokens |-> 8]>>
    /\ Len(generate_kwargs) > 0
    /\ generate_kwargs[1].max_new_tokens = 8
    /\ generation_config[1].max_new_tokens = 256

C29_WitnessNoParams ==
    /\ ncalls = MaxPredictCalls
    /\ params = <<>>
    /\ Len(generate_kwargs) = MaxItems
    /\ generate_kwargs[1] = LoadedConfig

----------------------------------------------------------------------------
(* Properties of split_data *)

SplitReturned == dpc = "returned"
\* how often item x occurs in list s
Occurrences(s, x) == Cardinality({ i \in 1..Len(s) : s[i] = x })
\* floor(n * f) for the fraction f
FloorOfShare(n, f) ==
    CHOOSE k \in 0..(n * f) : k * FractionSteps <= n * f /\ n * f < (k + 1) * FractionSteps

\* C23: for n items and fractions with train_size + val_size <= 1, the parts
\* have floor(n * train_size), floor(n * val_size) and the remaining number
\* of items, and every item given is in exactly one part, exactly once.
C23_SplitPartitions ==
    (SplitReturned /\ train_size + val_size <= FractionSteps) =>
        LET n     == Len(data)
            train == split[1][1]
            val   == split[1][2]
            test  == split[1][3]
        IN  /\ Len(train) = FloorOfShare(n, train_size)
            /\ Len(val) = FloorOfShare(n, val_size)
            /\ Len(test) = n - Len(train) - Len(val)
            /\ \A x \in 1..n :
                  Occurrences(train, x) + Occurrences(val, x)
                     + Occurrences(test, x) = 1

\* three non-empty parts of a list that the shuffle has reordered
C23_Witness ==
    /\ SplitReturned
    /\ Len(data) = MaxData
    /\ data # Iota(MaxData)
    /\ train_size + val_size < FractionSteps
    /\ Len(split[1][1]) > 0 /\ Len(split[1][2]) > 0 /\ Len(split[1][3]) > 0

----------------------------------------------------------------------------
(* Properties of the quality-gates runner *)

Exited == qpc = "exited"
ChecksRun == Len(check_results) = Len(Checks)
\* the checks whose command finished with return code 0
ZeroReturns == { i \in 1..Len(check_results) : check_results[i] = <<0>> }

\* C30: a check counts as passed only if its command returned 0; the run
\* prints "All quality gates passed!" and exits with code 0 only if every
\* check returned 0, and exits non-zero otherwise.
C30_GatesFailOnNonZero ==
    /\ passed = Cardinality(ZeroReturns)
    /\ (summary = "All quality gates passed!") =>
          Cardinality(ZeroReturns) = Len(Checks)
    /\ (Exited /\ ChecksRun) =>
          (exit_code = <<0>> <=> Cardinality(ZeroReturns) = Len(Checks))

----------------------------------------------------------------------------
(* Further properties of the drift job *)

\* the positions of lambda_handler: inside its try block, inside its except
\* branch, or returned
HandlerPositions ==
    {"load_training", "load_recent", "detect", "alert", "store", "except", "done"}

\* C24: lambda_handler never raises to its caller; whatever the loads, the
\* computation, the publishes and the store do, it ends by returning a
\* response with statusCode 200 and status 'skipped' or 'completed', or with
\* statusCode 500 and status 'error'.
C24_HandlerAlwaysReturns ==
    /\ pc \in HandlerPositions
    /\ pc = "done" =>
         /\ Len(response) = 1
         /\ \/ /\ response[1].statusCode = 200
               /\ response[1].status \in {"skipped", "completed"}
            \/ /\ response[1].statusCode = 500
               /\ response[1].status = "error"
    /\ pc # "done" => response = <<>>

\* C24 witness: a run in which the result store failed, the handler then
\* failed after the report, and the error alert failed as well.
C24_Witness ==
    /\ Returned
    /\ drift_results # <<>>
    /\ CallFailed("s3_put_results")
    /\ CallFailed("sns_publish_error")
    /\ response[1].statusCode = 500

\* C25: when the training embeddings were loaded and no recent embeddings
\* were found, the run returns statusCode 200 with status 'skipped' and has
\* computed no report, sent no drift alert, sent no error alert and stored
\* nothing.
C25_SkipDoesNothing ==
    (Len(training_embeddings) = 1 /\ RecentEmpty) =>
        /\ Returned
        /\ response[1].statusCode = 200
        /\ response[1].status = "skipped"
        /\ drift_results = <<>>
        /\ error = ""
        /\ CountCalls("sns_publish_drift") = 0
        /\ CountCalls("sns_publish_error") = 0
        /\ CountCalls("s3_put_results") = 0

\* C25 witness: a non-empty training set, an empty recent listing, and the
\* two loads the only calls made.
C25_Witness ==
    /\ Returned
    /\ Len(training_embeddings) = 1
    /\ NumSamples(training_embeddings[1]) > 0
    /\ RecentEmpty
    /\ Len(calls) = 2

\* the positions of the calls of that name in the order they were made
CallIndexes(name) == { i \in 1..Len(calls) : calls[i].call = name }
\* the handler is past line 88
StoreAttempted == pc \in {"done", "except"}

\* C26: in a run that reached a report, the drift alert is attempted at most
\* once and only if drift was detected; the store is attempted exactly once,
\* with or without drift and whether or not the alert failed; the alert
\* attempt precedes the store attempt.
C26_AlertThenStore ==
    drift_results # <<>> =>
        /\ CountCalls("sns_publish_drift") <= 1
        /\ CountCalls("sns_publish_drift") = 1 => drift_detected
        /\ CountCalls("s3_put_results") = IF StoreAttempted THEN 1 ELSE 0
        /\ \A i \in CallIndexes("sns_publish_drift") :
           \A j \in CallIndexes("s3_put_results") : i < j

\* C26 witness: drift detected, the alert publish failed, the store made
\* after it.
C26_Witness ==
    /\ pc = "done"
    /\ drift_results # <<>>
    /\ drift_detected
    /\ CallFailed("sns_publish_drift")
    /\ CountCalls("s3_put_results") = 1

\* C26, second case: no drift, no alert, one store.
C26_WitnessNoDrift ==
    /\ pc = "done"
    /\ drift_results # <<>>
    /\ ~drift_detected
    /\ CountCalls("sns_publish_drift") = 0
    /\ CountCalls("s3_put_results") = 1

----------------------------------------------------------------------------
(* Further properties of promote_model *)

\* the promote request is being served in this step
PromoteStep == mpc = "idle" /\ request'.op = "promote"

\* C27: within one promote call the stage-transition call is issued exactly
\* once and first; the description-update call is issued at most once, only
\* when a non-empty description was supplied and only after the transition
\* call succeeded; a failed transition leaves the stage and the description
\* of every version as they were.
C27_TransitionThenUpdate ==
    /\ [](PromoteDone =>
            /\ NumRegCalls("transition_model_version_stage") = 1
            /\ registry_calls[1].call = "transition_model_version_stage"
            /\ NumRegCalls("update_model_version") <= 1
            /\ NumRegCalls("update_model_version") = 1 =>
                 /\ Truthy(request.description)
                 /\ registry_calls[1].outcome = "ok"
                 /\ Len(registry_calls) = 2
                 /\ registry_calls[2].call = "update_model_version")
    /\ [][(PromoteStep /\ registry_calls'[1].outcome = "raise") =>
             model_versions' = model_versions]_vars

\* C27 witness: a description was supplied, the version exists, and the
\* transition call failed.
C27_Witness ==
    /\ PromoteDone
    /\ Truthy(request.description)
    /\ VersionExists(model_versions, request.version)
    /\ registry_calls[1].outcome = "raise"
    /\ Len(registry_calls) = 1

\* C27, second case: the transition succeeded and the update followed it.
C27_WitnessBothCalls ==
    /\ PromoteDone
    /\ Len(registry_calls) = 2
    /\ registry_calls[1].outcome = "ok"
    /\ registry_calls[2].call = "update_model_version"

\* C27, third case: an empty description, no update call.
C27_WitnessEmptyDescription ==
    /\ PromoteDone
    /\ request.description = <<"">>
    /\ registry_calls[1].outcome = "ok"
    /\ Len(registry_calls) = 1

====
